---- MODULE Spec2Model ----
(***************************************************************************)
(* Sensor-logger HTTP push servers: ingestion, durable store, live ring    *)
(* buffer and retention sweep, modelled from the Python sources.           *)
(*                                                                         *)
(* The repository holds four ingestion servers; a run is a run of one of   *)
(* them, recorded in the variable `server`:                                *)
(*   "pg"  datacollection_postgresql.py  (PostgreSQL, many clients, sweep) *)
(*   "fa"  fastapi_datacollection.py     (two SQLite files)                *)
(*   "sl"  streamlit_app.py              (SQLite + live deque)             *)
(*   "ss"  sensor_server.py              (one JSON-lines file per client)  *)
(*                                                                         *)
(* Instants.  A JSON `time` is an integer count of nanoseconds; it is      *)
(* written here as <<sec, nsec>> = sec * 10^9 + nsec, and a stored         *)
(* timestamp (a datetime, microsecond resolution) as <<sec, usec>>.        *)
(***************************************************************************)
EXTENDS Integers, Sequences, FiniteSets, TLC

VARIABLES
    server,          \* which of the four programs is running
    use_port,        \* datacollection_postgresql.py: --use-port
    pgTables,        \* PostgreSQL: table name -> rows, in insertion order
    faTables,        \* fastapi_datacollection.py: SQLite table name -> rows, in insertion order
    slTable,         \* streamlit_app.py: accelerometer_data: rows, in insertion order
    time_queue,      \* streamlit_app.py: data_store.time_queue
    accel_x_queue,   \* streamlit_app.py: data_store.accel_x_queue
    accel_y_queue,   \* streamlit_app.py: data_store.accel_y_queue
    accel_z_queue,   \* streamlit_app.py: data_store.accel_z_queue
    queue_client,    \* for each entry of the deques, the caller that sent it
    ssFiles,         \* sensor_server.py: <<client_ip, device_id>> -> lines of the file
    resp,            \* the answer to the last request
    effect,          \* the last request: samples routed to a store, rows added,
                     \* records of a name the server does not handle
    now,             \* the database clock NOW(), in seconds
    sweepPc,         \* cleanup_old_data: 0 asleep, else the index of the next table
    wakeAt,          \* cleanup_old_data: end of the current asyncio.sleep
    sweepLog,        \* cleanup_old_data: state of the latest sweep, rows it deleted,
                     \* and the number of sweeps that have failed so far
    data_lock,       \* streamlit_app.py: holder of data_store.data_lock, or "free"
    ready,           \* streamlit_app.py: caller -> its request whose body has been read
    handler,         \* streamlit_app.py: the request the event loop is running
    viewer,          \* streamlit_app.py: update_visualization, and its current_data
    Sxx_f_dict,      \* smartphone_sensor_data.py: axis -> its spectrogram and frequencies
    power_threshold, \* smartphone_sensor_data.py: the threshold, in dB
    dominant_frequencies,   \* smartphone_sensor_data.py: axis -> dominant frequency
    hv_dominant_frequency,  \* smartphone_sensor_data.py: the H/V dominant frequency
    client_tags,     \* client_tags.py: the rows of table client_tags, in insertion order
    upserts,         \* the calls of add_or_update_tag so far, in order
    client_ips,      \* smartphone_sensor_data.py: the clients the last discovery listed
    df,              \* smartphone_sensor_data.py: the rows the last range query returned
    startup          \* datacollection_postgresql.py: startup() and its database connection

vars == <<server, use_port, pgTables, faTables, slTable, time_queue,
          accel_x_queue, accel_y_queue, accel_z_queue, queue_client, ssFiles, resp,
          effect, now, sweepPc, wakeAt, sweepLog, data_lock, ready, handler, viewer,
          Sxx_f_dict, power_threshold, dominant_frequencies, hv_dominant_frequency,
          client_tags, upserts, client_ips, df, startup>>

-----------------------------------------------------------------------------
(* Bounds of the model *)

\* longest payload list of a request
MaxBatch == 2

\* clock ticks (of one sweep period each) a run may take
MaxTicks == 2

\* free places of the deques where the full-buffer runs start
QueueRoom == 1

-----------------------------------------------------------------------------
(* Instants and their conversion *)

TsLess(a, b) == a[1] < b[1] \/ (a[1] = b[1] /\ a[2] < b[2])


\* the seconds taken as d["time"] / 1_000_000, the time read as microseconds
FromTimestampMicros(t) ==
    <<t[1] * 1000 + t[2] \div 1000000, t[2] % 1000000>>

\* datetime.fromtimestamp(d["time"] / 1_000_000_000): the float of seconds is
\* rounded half-to-even to a whole microsecond.
FromTimestamp(t) ==
    LET q == t[2] \div 1000
        r == t[2] % 1000
        up == r > 500 \/ (r = 500 /\ q % 2 = 1)
        us == IF up THEN q + 1 ELSE q
    IN  IF us = 1000000 THEN <<t[1] + 1, 0>> ELSE <<t[1], us>>

-----------------------------------------------------------------------------
(* JSON values of a request.  Every value carries its JSON type in `json`; *)
(* an object's members are the other fields of the record.                 *)

Has(d, k) == k \in DOMAIN d

IsObject(d) == d.json = "object"

None == <<>>

Some(v) == <<v>>

\* dict.get(key): None when the key is absent
Get(d, k) == IF Has(d, k) THEN Some(d[k]) ELSE None

\* an exception raised while a request is processed; `message` is str(e)
Raise(m) == [kind |-> "raise", message |-> m]

-----------------------------------------------------------------------------
(* datacollection_postgresql.py *)

sensor_data_list_to_store ==
    {"gravity", "accelerometer", "accelerometeruncalibrated", "gyroscope",
     "totalacceleration"}

\* the keys of data_batches, in the order the dict is iterated
data_batches_keys ==
    <<"gravity", "accelerometer", "accelerometeruncalibrated", "gyroscope",
      "totalacceleration">>

\* the tables init_database and init_location_table create
PgTableNames == sensor_data_list_to_store \cup {"location"}


\* client_ip = client_host, whatever the flag
ClientIpHost(caller, flag) == <<caller.host>>

\* client_ip: host, or f"{host}:{port}" under --use-port
ClientIp(caller, flag) ==
    IF flag THEN <<caller.host, caller.port>> ELSE <<caller.host>>

\* a loop body that ends in `else: raise ValueError(...)` for an unknown name
PgDecodeOneStrict(d, client_ip) ==
    IF ~IsObject(d) THEN Raise("AttributeError: get")
    ELSE IF Has(d, "name") /\ d.name \in sensor_data_list_to_store
            /\ {"time", "values"} \subseteq DOMAIN d
            /\ {"x", "y", "z"} \subseteq DOMAIN d.values
    THEN [kind |-> "motion", name |-> d.name,
          row |-> [timestamp |-> FromTimestamp(d.time),
                   client_ip |-> client_ip,
                   x |-> d.values.x, y |-> d.values.y, z |-> d.values.z]]
    ELSE Raise("ValueError: unknown sensor")

\* One record of the payload, as the loop body of upload_sensor_data reads it.
PgDecodeOne(d, client_ip) ==
    IF ~IsObject(d) THEN Raise("AttributeError: get")
    ELSE IF Has(d, "name") /\ d.name \in sensor_data_list_to_store THEN
        IF ~Has(d, "time") THEN Raise("KeyError: time")
        ELSE IF ~Has(d, "values") THEN Raise("KeyError: values")
        ELSE IF ~Has(d.values, "x") THEN Raise("KeyError: x")
        ELSE IF ~Has(d.values, "y") THEN Raise("KeyError: y")
        ELSE IF ~Has(d.values, "z") THEN Raise("KeyError: z")
        ELSE [kind |-> "motion", name |-> d.name,
              row |-> [timestamp |-> FromTimestamp(d.time),
                       client_ip |-> client_ip,
                       x |-> d.values.x, y |-> d.values.y, z |-> d.values.z]]
    ELSE IF Has(d, "name") /\ d.name = "location" THEN
        IF ~Has(d, "time") THEN Raise("KeyError: time")
        ELSE IF ~Has(d, "values") THEN Raise("KeyError: values")
        ELSE [kind |-> "location",
              row |-> [timestamp |-> FromTimestamp(d.time),
                       client_ip |-> client_ip,
                       latitude |-> Get(d.values, "latitude"),
                       longitude |-> Get(d.values, "longitude"),
                       altitude |-> Get(d.values, "altitude"),
                       horizontal_accuracy |-> Get(d.values, "horizontalAccuracy"),
                       vertical_accuracy |-> Get(d.values, "verticalAccuracy")]]
    ELSE [kind |-> "skip"]

RECURSIVE PgDecodeFrom(_, _, _, _)
\* the `for d in payload` loop, from item i on
PgDecodeFrom(items, i, client_ip, acc) ==
    IF i > Len(items) THEN acc
    ELSE LET r == PgDecodeOne(items[i], client_ip) IN
         IF r.kind = "raise" THEN [ok |-> FALSE, message |-> r.message]
         ELSE IF r.kind = "motion" THEN
            PgDecodeFrom(items, i + 1, client_ip,
                [acc EXCEPT !.data_batches[r.name] = Append(@, r.row),
                            !.processed_count = @ + 1])
         ELSE IF r.kind = "location" THEN
            PgDecodeFrom(items, i + 1, client_ip,
                [acc EXCEPT !.location_data = Append(@, r.row)])
         ELSE PgDecodeFrom(items, i + 1, client_ip, acc)

PgDecode(items, client_ip) ==
    PgDecodeFrom(items, 1, client_ip,
        [ok |-> TRUE,
         data_batches |-> [n \in sensor_data_list_to_store |-> <<>>],
         location_data |-> <<>>,
         processed_count |-> 0])

\* the INSERT written as an upsert, ON CONFLICT (timestamp) DO UPDATE SET ...
InsertOnConflictDoUpdate(table, row) ==
    IF \E k \in 1..Len(table) : table[k].timestamp = row.timestamp
    THEN [k \in 1..Len(table) |->
            IF table[k].timestamp = row.timestamp THEN row ELSE table[k]]
    ELSE Append(table, row)

\* an INSERT without its ON CONFLICT clause on a table without its key
InsertAlways(table, row) == Append(table, row)

\* INSERT ... ON CONFLICT (timestamp) DO NOTHING, timestamp the PRIMARY KEY
InsertOnConflictDoNothing(table, row) ==
    IF \E k \in 1..Len(table) : table[k].timestamp = row.timestamp
    THEN table
    ELSE Append(table, row)

RECURSIVE ExecuteManyFrom(_, _, _)
ExecuteManyFrom(table, data, i) ==
    IF i > Len(data) THEN table
    ELSE ExecuteManyFrom(InsertOnConflictDoNothing(table, data[i]), data, i + 1)

\* store_data_in_db / store_location_data: conn.executemany(query, data)
ExecuteMany(table, data) == ExecuteManyFrom(table, data, 1)

RECURSIVE SelectCalls(_, _)
\* the store calls a decoded request makes, in order: one per non-empty batch
\* in dict order, then the location batch if it is non-empty
SelectCalls(dec, i) ==
    IF i > Len(data_batches_keys)
    THEN IF dec.location_data # <<>>
         THEN <<[table |-> "location", data |-> dec.location_data]>>
         ELSE <<>>
    ELSE LET n == data_batches_keys[i] IN
         IF dec.data_batches[n] # <<>>
         THEN <<[table |-> n, data |-> dec.data_batches[n]]>> \o SelectCalls(dec, i + 1)
         ELSE SelectCalls(dec, i + 1)

RECURSIVE PgStoreFrom(_, _, _, _)
\* The store calls from call i on; call number failAt raises (a storage
\* failure: connection lost, pool exhausted, ...) and writes nothing.
PgStoreFrom(tables, calls, i, failAt) ==
    IF i > Len(calls) THEN [ok |-> TRUE, tables |-> tables]
    ELSE IF i = failAt
    THEN [ok |-> FALSE, tables |-> tables, message |-> "storage failure"]
    ELSE PgStoreFrom(
            [tables EXCEPT ![calls[i].table] = ExecuteMany(@, calls[i].data)],
            calls, i + 1, failAt)

RECURSIVE CountRows(_, _)
\* rows held by the named tables together
CountRows(tables, names) ==
    IF names = {} THEN 0
    ELSE LET n == CHOOSE m \in names : TRUE
         IN  Len(tables[n]) + CountRows(tables, names \ {n})

\* the exception left to the framework, which answers 500 Internal Server Error
UnhandledError(m) == [http |-> 500, detail |-> m]

ErrorResponse(m) == [http |-> 200, status |-> "error", message |-> m]

\* upload_sensor_data of datacollection_postgresql.py, whole: what it leaves in
\* the tables and what it answers.
PgHandle(tables, flag, caller, body, failAt) ==
    IF body.json = "invalid"
    THEN [tables |-> tables, resp |-> ErrorResponse("JSONDecodeError")]
    ELSE IF body.json # "object"
    THEN [tables |-> tables, resp |-> ErrorResponse("AttributeError: get")]
    ELSE LET payload == IF Has(body, "payload") THEN body.payload
                        ELSE [json |-> "array", items |-> <<>>] IN
    IF payload.json # "array"
    THEN [tables |-> tables, resp |-> ErrorResponse("Invalid payload format")]
    ELSE LET dec == PgDecode(payload.items, ClientIp(caller, flag)) IN
    IF ~dec.ok
    THEN [tables |-> tables, resp |-> ErrorResponse(dec.message)]
    ELSE LET st == PgStoreFrom(tables, SelectCalls(dec, 1), 1, failAt) IN
    IF ~st.ok
    THEN [tables |-> st.tables, failed |-> TRUE, resp |-> ErrorResponse(st.message)]
    ELSE [tables |-> st.tables,
          resp |-> [http |-> 200, status |-> "success",
                    processed_count |-> dec.processed_count]]

-----------------------------------------------------------------------------
(* SQLite stores of streamlit_app.py and fastapi_datacollection.py *)

\* cursor.execute("INSERT INTO ..._data (timestamp, x, y, z) ..."), timestamp
\* the PRIMARY KEY: a second row of the same timestamp raises IntegrityError,
\* which store_data_in_db catches and ignores.
SqliteInsert(table, row) ==
    IF \E k \in 1..Len(table) : table[k].timestamp = row.timestamp
    THEN table
    ELSE Append(table, row)

\* The part of the loop body the two SQLite servers share: the fields read
\* from one record of a supported sensor.
SqliteDecodeOne(d, supported) ==
    IF ~IsObject(d) THEN Raise("AttributeError: get")
    ELSE IF Has(d, "name") /\ d.name \in supported THEN
        IF ~Has(d, "time") THEN Raise("KeyError: time")
        ELSE IF ~Has(d, "values") THEN Raise("KeyError: values")
        ELSE IF ~Has(d.values, "x") THEN Raise("KeyError: x")
        ELSE IF ~Has(d.values, "y") THEN Raise("KeyError: y")
        ELSE IF ~Has(d.values, "z") THEN Raise("KeyError: z")
        ELSE [kind |-> "motion", name |-> d.name,
              row |-> [timestamp |-> FromTimestamp(d.time),
                       x |-> d.values.x, y |-> d.values.y, z |-> d.values.z]]
    ELSE [kind |-> "skip"]

-----------------------------------------------------------------------------
(* streamlit_app.py: SQLite table and the live deques *)

data_length_to_display == 60

sampling_rate == 50

total_data_points == data_length_to_display * sampling_rate

\* a deque built without maxlen
DequeAppendUnbounded(q, v) == Append(q, v)

\* deque(maxlen=total_data_points).append(v): a full deque drops its leftmost
DequeAppend(q, v) ==
    IF Len(q) = total_data_points THEN Append(Tail(q), v) ELSE Append(q, v)

AppendAll(st, row) ==
    [st EXCEPT !.time_queue = DequeAppend(@, row.timestamp),
               !.accel_x_queue = DequeAppend(@, row.x),
               !.accel_y_queue = DequeAppend(@, row.y),
               !.accel_z_queue = DequeAppend(@, row.z)]

\* the deques updated without the "recent data" test
SlAdmitAlways(st, row) == AppendAll(st, row)

\* the test written `ts >= time_queue[-1]`
SlAdmitOrEqual(st, row) ==
    IF Len(st.time_queue) = 0 \/ ~TsLess(row.timestamp, st.time_queue[Len(st.time_queue)])
    THEN AppendAll(st, row)
    ELSE st

\* the test written against time_queue[0], the oldest entry
SlAdmitAfterOldest(st, row) ==
    IF Len(st.time_queue) = 0 \/ TsLess(st.time_queue[1], row.timestamp)
    THEN AppendAll(st, row)
    ELSE st

\* "Update deque if it's recent data"
SlAdmit(st, row) ==
    IF Len(st.time_queue) = 0 \/ TsLess(st.time_queue[Len(st.time_queue)], row.timestamp)
    THEN AppendAll(st, row)
    ELSE st

RECURSIVE SlLoopStoreAdmitted(_, _, _, _, _)
\* the loop with the store call moved inside the "recent data" test
SlLoopStoreAdmitted(st, items, i, calls, failAt) ==
    IF i > Len(items) THEN [ok |-> TRUE, st |-> st, calls |-> calls]
    ELSE LET r == SqliteDecodeOne(items[i], {"accelerometer"}) IN
         IF r.kind = "raise"
         THEN [ok |-> FALSE, st |-> st, calls |-> calls, message |-> r.message]
         ELSE IF r.kind = "skip" THEN SlLoopStoreAdmitted(st, items, i + 1, calls, failAt)
         ELSE IF SlAdmit(st, r.row) = st
         THEN SlLoopStoreAdmitted(st, items, i + 1, calls, failAt)
         ELSE IF calls + 1 = failAt
         THEN [ok |-> FALSE, st |-> st, calls |-> calls, message |-> "storage failure"]
         ELSE SlLoopStoreAdmitted(
                SlAdmit([st EXCEPT !.table = SqliteInsert(@, r.row)], r.row),
                items, i + 1, calls + 1, failAt)

RECURSIVE SlLoopFrom(_, _, _, _, _)
\* The `for d in payload` loop under data_store.data_lock, from item i on;
\* `calls` counts the store calls made so far, and call number failAt raises.
SlLoopFrom(st, items, i, calls, failAt) ==
    IF i > Len(items) THEN [ok |-> TRUE, st |-> st, calls |-> calls]
    ELSE LET r == SqliteDecodeOne(items[i], {"accelerometer"}) IN
         IF r.kind = "raise"
         THEN [ok |-> FALSE, st |-> st, calls |-> calls, message |-> r.message]
         ELSE IF r.kind = "skip" THEN SlLoopFrom(st, items, i + 1, calls, failAt)
         ELSE IF calls + 1 = failAt
         THEN [ok |-> FALSE, st |-> st, calls |-> calls, message |-> "storage failure"]
         ELSE SlLoopFrom(
                SlAdmit([st EXCEPT !.table = SqliteInsert(@, r.row)], r.row),
                items, i + 1, calls + 1, failAt)

\* upload_sensor_data of streamlit_app.py, whole
SlHandle(st, body, failAt) ==
    IF body.json = "invalid"
    THEN [st |-> st, routed |-> 0, resp |-> ErrorResponse("JSONDecodeError")]
    ELSE IF body.json # "object"
    THEN [st |-> st, routed |-> 0, resp |-> ErrorResponse("AttributeError: get")]
    ELSE LET payload == IF Has(body, "payload") THEN body.payload
                        ELSE [json |-> "array", items |-> <<>>] IN
    IF payload.json # "array"
    THEN [st |-> st, routed |-> 0, resp |-> ErrorResponse("Invalid payload format")]
    ELSE LET r == SlLoopFrom(st, payload.items, 1, 0, failAt) IN
    IF ~r.ok
    THEN [st |-> r.st, routed |-> r.calls, failed |-> r.message = "storage failure",
          resp |-> ErrorResponse(r.message)]
    ELSE [st |-> r.st, routed |-> r.calls,
          resp |-> [http |-> 200, status |-> "success"]]

-----------------------------------------------------------------------------
(* fastapi_datacollection.py: one SQLite file per sensor *)

fa_sensor_data_list_to_store == {"gravity", "accelerometer"}

RECURSIVE FaLoopFrom(_, _, _, _, _, _)
FaLoopFrom(tables, items, i, processed_count, calls, failAt) ==
    IF i > Len(items)
    THEN [ok |-> TRUE, tables |-> tables, processed_count |-> processed_count]
    ELSE LET r == SqliteDecodeOne(items[i], fa_sensor_data_list_to_store) IN
         IF r.kind = "raise"
         THEN [ok |-> FALSE, tables |-> tables, message |-> r.message]
         ELSE IF r.kind = "skip"
         THEN FaLoopFrom(tables, items, i + 1, processed_count, calls, failAt)
         ELSE IF calls + 1 = failAt
         THEN [ok |-> FALSE, tables |-> tables, message |-> "storage failure"]
         ELSE FaLoopFrom([tables EXCEPT ![r.name] = SqliteInsert(@, r.row)],
                         items, i + 1, processed_count + 1, calls + 1, failAt)

\* upload_sensor_data of fastapi_datacollection.py, whole
FaHandle(tables, body, failAt) ==
    IF body.json = "invalid"
    THEN [tables |-> tables, resp |-> ErrorResponse("JSONDecodeError")]
    ELSE IF body.json # "object"
    THEN [tables |-> tables, resp |-> ErrorResponse("AttributeError: get")]
    ELSE LET payload == IF Has(body, "payload") THEN body.payload
                        ELSE [json |-> "array", items |-> <<>>] IN
    IF payload.json # "array"
    THEN [tables |-> tables, resp |-> ErrorResponse("Invalid payload format")]
    ELSE LET r == FaLoopFrom(tables, payload.items, 1, 0, 0, failAt) IN
    IF ~r.ok
    THEN [tables |-> r.tables, failed |-> r.message = "storage failure",
          resp |-> ErrorResponse(r.message)]
    ELSE [tables |-> r.tables,
          resp |-> [http |-> 200, status |-> "success",
                    processed_count |-> r.processed_count]]

-----------------------------------------------------------------------------
(* sensor_server.py: one JSON-lines file per client and device *)

\* lines a file of the model may hold
MaxLines == 2

\* `not sensor_data`: null, {} and [] are falsy
Falsy(body) ==
    \/ body.json = "null"
    \/ body.json = "object" /\ DOMAIN body = {"json"}
    \/ body.json = "array" /\ Has(body, "items") /\ body.items = <<>>

HttpError(code, detail) == [http |-> code, detail |-> detail]

\* upload_sensor_data of sensor_server.py, whole.  Every exception of the try
\* block, the HTTPException(400) included, is caught by `except Exception`
\* and raised again as HTTPException(500).
SsHandle(files, caller, body, writeFails) ==
    IF body.json = "invalid"
    THEN [files |-> files, resp |-> HttpError(500, "JSONDecodeError")]
    ELSE IF Falsy(body)
    THEN [files |-> files, resp |-> HttpError(500, "400: No JSON data received")]
    ELSE IF body.json # "object"
    THEN [files |-> files, resp |-> HttpError(500, "AttributeError: get")]
    ELSE IF writeFails
    THEN [files |-> files, resp |-> HttpError(500, "OSError")]
    ELSE LET device_id == IF Has(body, "device_id") THEN body.device_id ELSE "unknown"
             filename == <<caller.host, device_id>>
         IN  [files |-> [files EXCEPT ![filename] = Append(@, body)],
              resp |-> [http |-> 200, message |-> "Data received successfully"]]

-----------------------------------------------------------------------------
(* datacollection_postgresql.py: cleanup_old_data *)

\* 24 HOURS, in seconds
RetentionSeconds == 24 * 3600

\* asyncio.sleep(3600)
SleepSeconds == 3600

\* the tables in the order one sweep deletes from them
SweepOrder == data_batches_keys \o <<"location">>

\* timestamp < NOW() - INTERVAL '24 HOURS'
Expired(row, clock) == TsLess(row.timestamp, <<clock - RetentionSeconds, 0>>)

RECURSIVE KeepFrom(_, _, _)
KeepFrom(table, clock, i) ==
    IF i > Len(table) THEN <<>>
    ELSE IF Expired(table[i], clock) THEN KeepFrom(table, clock, i + 1)
    ELSE <<table[i]>> \o KeepFrom(table, clock, i + 1)

RECURSIVE KeepOldFrom(_, _, _)
KeepOldFrom(table, clock, i) ==
    IF i > Len(table) THEN <<>>
    ELSE IF Expired(table[i], clock)
    THEN <<table[i]>> \o KeepOldFrom(table, clock, i + 1)
    ELSE KeepOldFrom(table, clock, i + 1)

\* the DELETE written with the comparison reversed, `timestamp > NOW() - ...`
DeleteOldReversed(table, clock) == KeepOldFrom(table, clock, 1)

RECURSIVE KeepAfterFrom(_, _, _)
KeepAfterFrom(table, clock, i) ==
    IF i > Len(table) THEN <<>>
    ELSE IF TsLess(<<clock - RetentionSeconds, 0>>, table[i].timestamp)
    THEN <<table[i]>> \o KeepAfterFrom(table, clock, i + 1)
    ELSE KeepAfterFrom(table, clock, i + 1)

\* the DELETE written with `timestamp <= NOW() - INTERVAL '24 HOURS'`
DeleteOldInclusive(table, clock) == KeepAfterFrom(table, clock, 1)

\* DELETE FROM ..._data WHERE timestamp < NOW() - INTERVAL '24 HOURS'
DeleteOld(table, clock) == KeepFrom(table, clock, 1)

-----------------------------------------------------------------------------
(* The requests of the model *)

\* two devices behind one address
Callers ==
    {[host |-> "1.2.3.4", port |-> 50001], [host |-> "1.2.3.4", port |-> 50002]}

FirstCaller == [host |-> "1.2.3.4", port |-> 50001]

V1 == [x |-> 1, y |-> 2, z |-> 3]

V2 == [x |-> 4, y |-> 5, z |-> 6]

Motion(n, t, v) == [json |-> "object", name |-> n, time |-> t, values |-> v]

Barometer ==
    [json |-> "object", name |-> "barometer", time |-> <<1, 0>>,
     values |-> [pressure |-> 1013]]

NoTime == [json |-> "object", name |-> "accelerometer", values |-> V1]

NoValues == [json |-> "object", name |-> "accelerometer", time |-> <<1, 0>>]

NoZ ==
    [json |-> "object", name |-> "accelerometer", time |-> <<1, 0>>,
     values |-> [x |-> 1, y |-> 2]]

NotAnObject == [json |-> "number"]

Malformed == {NoTime, NoValues, NoZ, NotAnObject}

\* 1 s and 1 s + 400 ns both become the timestamp 1 s
PgRecords ==
    { Motion("accelerometer", <<1, 0>>, V1),
      Motion("accelerometer", <<1, 400>>, V2),
      Motion("gravity", <<1, 0>>, V1),
      [json |-> "object", name |-> "location", time |-> <<1, 0>>,
       values |-> [latitude |-> 37, longitude |-> -122, altitude |-> 68]],
      Barometer, NoValues }

\* 1 s + 1400 ns becomes 1 s + 1 us
FaRecords ==
    { Motion("accelerometer", <<1, 0>>, V1),
      Motion("accelerometer", <<1, 400>>, V2),
      Motion("accelerometer", <<1, 1400>>, V1),
      Motion("gravity", <<1, 0>>, V1),
      Barometer, NoTime }

SlRecords ==
    { Motion("accelerometer", <<1, 0>>, V1),
      Motion("accelerometer", <<1, 1400>>, V1),
      Motion("accelerometer", <<2, 0>>, V1),
      Motion("gravity", <<3, 0>>, V1),
      NoZ }

SeqsUpTo(S, n) == UNION {[1..k -> S] : k \in 0..n}

PayloadOf(s) == [json |-> "object", payload |-> [json |-> "array", items |-> s]]

\* Request bodies: not JSON, null, a list, {}, a payload that is no list,
\* payload lists of up to MaxBatch of the given records, and every malformed
\* record on its own.
Bodies(records) ==
    { [json |-> "invalid"], [json |-> "null"], [json |-> "array"],
      [json |-> "object"],
      [json |-> "object", payload |-> [json |-> "string"]] }
    \cup { PayloadOf(s) : s \in SeqsUpTo(records, MaxBatch) }
    \cup { PayloadOf(<<m>>) : m \in Malformed }

SsBodies ==
    { [json |-> "invalid"], [json |-> "null"], [json |-> "array"],
      [json |-> "object"],
      PayloadOf(<<>>),
      [json |-> "object", device_id |-> "phone1",
       payload |-> [json |-> "array", items |-> <<Motion("accelerometer", <<1, 0>>, V1)>>]] }

SsFileNames == {c.host : c \in Callers} \X {"unknown", "phone1"}

-----------------------------------------------------------------------------
(* State *)

Servers == {"pg", "fa", "sl", "ss"}

\* The deques and the table of streamlit_app.py after n samples, 1 us apart,
\* have been stored and admitted one by one.
PreFilled(n) ==
    [time_queue |-> [i \in 1..n |-> <<0, i>>],
     accel_x_queue |-> [i \in 1..n |-> 0],
     accel_y_queue |-> [i \in 1..n |-> 0],
     accel_z_queue |-> [i \in 1..n |-> 9],
     table |-> [i \in 1..n |-> [timestamp |-> <<0, i>>, x |-> 0, y |-> 0, z |-> 9]]]

\* no request is running
Idle == [pc |-> "idle"]

\* the servers and their stores after start-up
InitServers(servers, slStart) ==
    /\ server \in servers
    /\ use_port \in (IF server = "pg" THEN BOOLEAN ELSE {FALSE})
    /\ pgTables = [n \in PgTableNames |-> <<>>]
    /\ faTables = [n \in fa_sensor_data_list_to_store |-> <<>>]
    /\ slTable = slStart.table
    /\ time_queue = slStart.time_queue
    /\ accel_x_queue = slStart.accel_x_queue
    /\ accel_y_queue = slStart.accel_y_queue
    /\ accel_z_queue = slStart.accel_z_queue
    /\ queue_client = [i \in 1..Len(slStart.time_queue) |-> FirstCaller]
    /\ ssFiles = [f \in SsFileNames |-> <<>>]
    /\ resp = [http |-> 0]
    /\ effect = [routed |-> 0, inserted |-> 0, unsupported |-> 0]
    /\ now = RetentionSeconds
    /\ sweepPc = 1
    /\ wakeAt = 0
    /\ sweepLog = [state |-> "running", deleted |-> 0, failed |-> 0]
    /\ data_lock = "free"
    /\ ready = [c \in Callers |-> None]
    /\ handler = Idle
    /\ viewer = [pc |-> "idle", Time |-> <<>>, X |-> <<>>, Y |-> <<>>, Z |-> <<>>]

NoSpectrum == [Sxx |-> <<>>, f |-> <<>>]

\* the dashboard before it has read anything
InitTags ==
    /\ client_tags = <<>>
    /\ upserts = <<>>

InitQueries ==
    /\ client_ips = {}
    /\ df = <<>>

InitSignal ==
    /\ Sxx_f_dict = [a \in {"X", "Y", "Z"} |-> NoSpectrum]
    /\ power_threshold = 0
    /\ dominant_frequencies = [a \in {"X", "Y", "Z"} |-> 0]
    /\ hv_dominant_frequency = 0

\* startup() has returned: the database is there and the pool is open
Started ==
    [pc |-> "done", conn |-> "closed", db_exists |-> TRUE, db_pool |-> "open",
     logged |-> <<"already exists">>, raised |-> None]

InitBoot == startup = Started

InitWith(servers, slStart) ==
    /\ InitServers(servers, slStart)
    /\ InitBoot
    /\ InitTags
    /\ InitQueries
    /\ InitSignal

\* each server as it is after start-up
Init == InitWith(Servers, PreFilled(0))

sweepVars == <<now, sweepPc, wakeAt, sweepLog>>

threadVars == <<data_lock, ready, handler, viewer>>

signalVars ==
    <<Sxx_f_dict, power_threshold, dominant_frequencies, hv_dominant_frequency>>

tagVars == <<client_tags, upserts>>

queryVars == <<client_ips, df>>

bootVars == <<startup>>

dashVars == <<signalVars, tagVars, queryVars, bootVars>>

\* failAt numbers a store call the request made (else it names no failure)
StorageFailed(h) == Has(h, "failed") /\ h.failed

\* samples a request handed to a store call that returned
Routed(h) ==
    IF Has(h.resp, "processed_count") THEN h.resp.processed_count ELSE 0

\* the records of a request body
Items(body) ==
    IF body.json = "object" /\ Has(body, "payload") /\ body.payload.json = "array"
    THEN body.payload.items
    ELSE <<>>

\* the records of a request that the loop passes over: objects whose name is
\* absent or none of those the server handles
Unsupported(body, handled) ==
    Cardinality({i \in 1..Len(Items(body)) :
        /\ IsObject(Items(body)[i])
        /\ ~(Has(Items(body)[i], "name") /\ Items(body)[i].name \in handled)})

PgUpload(caller, body, failAt) ==
    /\ server = "pg"
    /\ \E h \in {PgHandle(pgTables, use_port, caller, body, failAt)} :
         /\ failAt # 0 => StorageFailed(h)
         /\ pgTables' = h.tables
         /\ resp' = h.resp
         /\ effect' = [routed |-> Routed(h),
                       inserted |-> CountRows(h.tables, PgTableNames)
                                    - CountRows(pgTables, PgTableNames),
                       unsupported |-> Unsupported(body, PgTableNames)]
    /\ UNCHANGED <<server, use_port, faTables, slTable, time_queue, accel_x_queue,
                   accel_y_queue, accel_z_queue, queue_client, ssFiles, sweepVars,
                   threadVars, dashVars>>

FaUpload(body, failAt) ==
    /\ server = "fa"
    /\ \E h \in {FaHandle(faTables, body, failAt)} :
         /\ failAt # 0 => StorageFailed(h)
         /\ faTables' = h.tables
         /\ resp' = h.resp
         /\ effect' = [routed |-> Routed(h),
                       inserted |-> CountRows(h.tables, fa_sensor_data_list_to_store)
                                    - CountRows(faTables, fa_sensor_data_list_to_store),
                       unsupported |-> Unsupported(body, fa_sensor_data_list_to_store)]
    /\ UNCHANGED <<server, use_port, pgTables, slTable, time_queue, accel_x_queue,
                   accel_y_queue, accel_z_queue, queue_client, ssFiles, sweepVars,
                   threadVars, dashVars>>

SlState ==
    [table |-> slTable, time_queue |-> time_queue, accel_x_queue |-> accel_x_queue,
     accel_y_queue |-> accel_y_queue, accel_z_queue |-> accel_z_queue]

\* The entries of the deque `after` that a request of `most` records appended:
\* those later than the last entry of `before` (all, if `before` is empty).
Appended(before, after, most) ==
    Cardinality({k \in 1..Len(after) :
        /\ k > Len(after) - most
        /\ before = <<>> \/ TsLess(before[Len(before)], after[k])})

RECURSIVE Senders(_, _, _, _)
\* queue_client after the caller's request appended n entries
Senders(clients, caller, n, capacity) ==
    IF n = 0 THEN clients
    ELSE Senders(IF Len(clients) = capacity THEN Append(Tail(clients), caller)
                 ELSE Append(clients, caller),
                 caller, n - 1, capacity)

SlUpload(caller, body, failAt) ==
    /\ server = "sl"
    /\ \E h \in {SlHandle(SlState, body, failAt)} :
         /\ failAt # 0 => StorageFailed(h)
         /\ slTable' = h.st.table
         /\ time_queue' = h.st.time_queue
         /\ accel_x_queue' = h.st.accel_x_queue
         /\ accel_y_queue' = h.st.accel_y_queue
         /\ accel_z_queue' = h.st.accel_z_queue
         /\ queue_client' = Senders(queue_client, caller,
                                    Appended(time_queue, h.st.time_queue, Len(Items(body))),
                                    total_data_points)
         /\ resp' = h.resp
         /\ effect' = [routed |-> h.routed,
                       inserted |-> Len(h.st.table) - Len(slTable),
                       unsupported |-> Unsupported(body, {"accelerometer"})]
    /\ UNCHANGED <<server, use_port, pgTables, faTables, ssFiles, sweepVars,
                   threadVars, dashVars>>

SsUpload(caller, body, writeFails) ==
    /\ server = "ss"
    /\ LET filename == <<caller.host,
                         IF Has(body, "device_id") THEN body.device_id ELSE "unknown">>
       IN  Len(ssFiles[filename]) < MaxLines
    /\ \E h \in {SsHandle(ssFiles, caller, body, writeFails)} :
         /\ ssFiles' = h.files
         /\ resp' = h.resp
    /\ effect' = [routed |-> 0, inserted |-> 0, unsupported |-> 0]
    /\ UNCHANGED <<server, use_port, pgTables, faTables, slTable, time_queue,
                   accel_x_queue, accel_y_queue, accel_z_queue, queue_client, sweepVars,
                   threadVars, dashVars>>

\* a sweep task whose try has no except clause: the exception ends the task
SweepNoExcept ==
    /\ sweepPc' = -1
    /\ sweepLog' = [sweepLog EXCEPT !.state = "failed", !.failed = @ + 1]
    /\ UNCHANGED wakeAt

\* `except Exception as e: logger.error(...)`, then asyncio.sleep(3600)
SweepExcept ==
    /\ sweepPc' = 0
    /\ sweepLog' = [sweepLog EXCEPT !.state = "failed", !.failed = @ + 1]
    /\ wakeAt' = now + SleepSeconds

\* One statement of the sweep: the DELETE of table number sweepPc (preceded,
\* for the first, by pool.acquire()).  If it raises, the except clause logs and
\* the sweep is over; after the last table the sweep is complete.  Either way
\* the task then sleeps.
SweepStep(raises) ==
    /\ server = "pg"
    /\ sweepPc \in 1..Len(SweepOrder)
    /\ IF raises
       THEN /\ SweepExcept
            /\ UNCHANGED pgTables
       ELSE /\ pgTables' = [pgTables EXCEPT ![SweepOrder[sweepPc]] = DeleteOld(@, now)]
            /\ IF sweepPc = Len(SweepOrder)
               THEN /\ sweepPc' = 0
                    /\ sweepLog' = [sweepLog EXCEPT !.state = "completed", !.deleted =
                                        @ + Len(pgTables[SweepOrder[sweepPc]])
                                          - Len(DeleteOld(pgTables[SweepOrder[sweepPc]], now))]
                    /\ wakeAt' = now + SleepSeconds
               ELSE /\ sweepPc' = sweepPc + 1
                    /\ sweepLog' = [sweepLog EXCEPT !.deleted =
                                        @ + Len(pgTables[SweepOrder[sweepPc]])
                                          - Len(DeleteOld(pgTables[SweepOrder[sweepPc]], now))]
                    /\ UNCHANGED wakeAt
    /\ UNCHANGED <<server, use_port, faTables, slTable, time_queue, accel_x_queue,
                   accel_y_queue, accel_z_queue, queue_client, ssFiles, resp, effect, now,
                   threadVars, dashVars>>

\* asyncio.sleep(3600) returns and the loop starts the next sweep
SweepWake ==
    /\ server = "pg"
    /\ sweepPc = 0
    /\ now >= wakeAt
    /\ sweepPc' = 1
    /\ sweepLog' = [sweepLog EXCEPT !.state = "running", !.deleted = 0]
    /\ UNCHANGED <<server, use_port, pgTables, faTables, slTable, time_queue,
                   accel_x_queue, accel_y_queue, accel_z_queue, queue_client, ssFiles, resp,
                   effect, now, wakeAt,
                   threadVars, dashVars>>

\* an hour passes
Tick ==
    /\ server = "pg"
    /\ now < RetentionSeconds + MaxTicks * SleepSeconds
    /\ now' = now + SleepSeconds
    /\ UNCHANGED <<server, use_port, pgTables, faTables, slTable, time_queue,
                   accel_x_queue, accel_y_queue, accel_z_queue, queue_client, ssFiles, resp,
                   effect, sweepPc, wakeAt, sweepLog,
                   threadVars, dashVars>>

Next ==
    \/ \E c \in Callers, b \in Bodies(PgRecords), f \in 0..MaxBatch : PgUpload(c, b, f)
    \/ \E b \in Bodies(FaRecords), f \in 0..MaxBatch : FaUpload(b, f)
    \/ \E c \in Callers, b \in Bodies(SlRecords), f \in 0..MaxBatch : SlUpload(c, b, f)
    \/ \E c \in Callers, b \in SsBodies, w \in BOOLEAN : SsUpload(c, b, w)

Spec == Init /\ [][Next]_vars

\* The PostgreSQL server with its sweep task and the clock; the requests are
\* single samples, one of them (1 s) expiring at the first tick.
SweepRecords ==
    { Motion("accelerometer", <<1, 0>>, V1),
      Motion("accelerometer", <<2 * SleepSeconds, 0>>, V1),
      Motion("gravity", <<1, 0>>, V1),
      [json |-> "object", name |-> "location", time |-> <<1, 0>>,
       values |-> [latitude |-> 37, longitude |-> -122, altitude |-> 68]] }

InitSweep == InitWith({"pg"}, PreFilled(0))

NextSweep ==
    \/ \E r \in SweepRecords : PgUpload(FirstCaller, PayloadOf(<<r>>), 0)
    \/ \E raises \in BOOLEAN : SweepStep(raises)
    \/ SweepWake
    \/ Tick

SpecSweep == InitSweep /\ [][NextSweep]_vars

\* The same, with the scheduling the event loop and the clock give: time
\* passes, a sleep that is over returns, a statement that can run does.
SpecSweepFair ==
    /\ SpecSweep
    /\ WF_vars(Tick)
    /\ WF_vars(SweepWake)
    /\ WF_vars(\E raises \in BOOLEAN : SweepStep(raises))

\* The combined server started with its deques nearly full.
FullRecords ==
    { Motion("accelerometer", <<0, 5000>>, V1),
      Motion("accelerometer", <<1, 0>>, V1),
      Motion("accelerometer", <<1, 1400>>, V2),
      Motion("accelerometer", <<2, 0>>, V1),
      Motion("accelerometer", <<3, 0>>, V2) }

InitFull == InitWith({"sl"}, PreFilled(total_data_points - QueueRoom))

NextFull ==
    \E r \in FullRecords, f \in 0..1 : SlUpload(FirstCaller, PayloadOf(<<r>>), f)

SpecFull == InitFull /\ [][NextFull]_vars

-----------------------------------------------------------------------------
(* streamlit_app.py statement by statement.  The requests are coroutines of  *)
(* the one event loop of the FastAPI thread: after `await request.json()`    *)
(* the handler has no await, so a request runs to its answer before another  *)
(* starts.  update_visualization runs on the main thread.                    *)

A1 == Motion("accelerometer", <<1, 0>>, V1)

A2 == Motion("accelerometer", <<2, 0>>, V2)

ThreadBodies ==
    { PayloadOf(<<A1>>), PayloadOf(<<A2>>), PayloadOf(<<A2, A1>>),
      PayloadOf(<<A1, NoZ>>), PayloadOf(<<Motion("gravity", <<3, 0>>, V1), A2>>) }

\* what the statements of streamlit_app.py leave alone
otherVars == <<server, use_port, pgTables, faTables, ssFiles, sweepVars, dashVars>>

queueVars == <<time_queue, accel_x_queue, accel_y_queue, accel_z_queue, queue_client>>

\* `data = await request.json()` has the body of a request of the caller
Arrive(c, body) ==
    /\ server = "sl"
    /\ ready[c] = None
    /\ ready' = [ready EXCEPT ![c] = Some(body)]
    /\ UNCHANGED <<otherVars, queueVars, slTable, resp, effect, data_lock, handler, viewer>>

\* The event loop resumes the coroutine: payload = data.get("payload", []) and
\* the isinstance test.
HStart(c) ==
    /\ server = "sl"
    /\ handler = Idle
    /\ ready[c] # None
    /\ ready' = [ready EXCEPT ![c] = None]
    /\ LET body == ready[c][1] IN
       IF body.json # "object" \/ (Has(body, "payload") /\ body.payload.json # "array")
       THEN /\ resp' = SlHandle(SlState, body, 0).resp
            /\ effect' = [routed |-> 0, inserted |-> 0, unsupported |-> 0]
            /\ UNCHANGED handler
       ELSE /\ handler' = [pc |-> "acquire", caller |-> c, items |-> Items(body),
                           i |-> 1, row |-> None, calls |-> 0, error |-> None,
                           rows |-> Len(slTable),
                           unsupported |-> Unsupported(body, {"accelerometer"})]
            /\ UNCHANGED <<resp, effect>>
    /\ UNCHANGED <<otherVars, queueVars, slTable, data_lock, viewer>>

\* a `with data_store.data_lock:` that does not wait for the lock
HAcquireNoWait ==
    /\ server = "sl"
    /\ handler.pc = "acquire"
    /\ data_lock' = "handler"
    /\ handler' = [handler EXCEPT !.pc = "loop"]
    /\ UNCHANGED <<otherVars, queueVars, slTable, resp, effect, ready, viewer>>

\* `with data_store.data_lock:` of the handler
HAcquire ==
    /\ server = "sl"
    /\ handler.pc = "acquire"
    /\ data_lock = "free"
    /\ data_lock' = "handler"
    /\ handler' = [handler EXCEPT !.pc = "loop"]
    /\ UNCHANGED <<otherVars, queueVars, slTable, resp, effect, ready, viewer>>

\* `for d in payload:` and the reading of one record
HLoop ==
    /\ server = "sl"
    /\ handler.pc = "loop"
    /\ IF handler.i > Len(handler.items)
       THEN handler' = [handler EXCEPT !.pc = "exit"]
       ELSE LET r == SqliteDecodeOne(handler.items[handler.i], {"accelerometer"}) IN
            IF r.kind = "raise"
            THEN handler' = [handler EXCEPT !.pc = "exit", !.error = Some(r.message)]
            ELSE IF r.kind = "skip"
            THEN handler' = [handler EXCEPT !.i = @ + 1]
            ELSE handler' = [handler EXCEPT !.pc = "store", !.row = r.row]
    /\ UNCHANGED <<otherVars, queueVars, slTable, resp, effect, data_lock, ready, viewer>>

\* a store call whose exception is swallowed: the loop body goes on
HStoreSwallowed(fails) ==
    /\ server = "sl"
    /\ handler.pc = "store"
    /\ slTable' = IF fails THEN slTable ELSE SqliteInsert(slTable, handler.row)
    /\ handler' = [handler EXCEPT !.pc = "test", !.calls = @ + 1]
    /\ UNCHANGED <<otherVars, queueVars, resp, effect, data_lock, ready, viewer>>

\* store_data_in_db(ts, x, y, z)
HStore(fails) ==
    /\ server = "sl"
    /\ handler.pc = "store"
    /\ IF fails
       THEN /\ handler' = [handler EXCEPT !.pc = "exit",
                                          !.error = Some("storage failure")]
            /\ UNCHANGED slTable
       ELSE /\ slTable' = SqliteInsert(slTable, handler.row)
            /\ handler' = [handler EXCEPT !.pc = "test", !.calls = @ + 1]
    /\ UNCHANGED <<otherVars, queueVars, resp, effect, data_lock, ready, viewer>>

\* `if len(data_store.time_queue) == 0 or ts > data_store.time_queue[-1]:`
HTest ==
    /\ server = "sl"
    /\ handler.pc = "test"
    /\ IF Len(time_queue) = 0 \/ TsLess(time_queue[Len(time_queue)], handler.row.timestamp)
       THEN handler' = [handler EXCEPT !.pc = "append_t"]
       ELSE handler' = [handler EXCEPT !.pc = "loop", !.i = @ + 1]
    /\ UNCHANGED <<otherVars, queueVars, slTable, resp, effect, data_lock, ready, viewer>>

\* data_store.time_queue.append(ts)
HAppendTime ==
    /\ server = "sl"
    /\ handler.pc = "append_t"
    /\ time_queue' = DequeAppend(time_queue, handler.row.timestamp)
    /\ queue_client' = Senders(queue_client, handler.caller, 1, total_data_points)
    /\ handler' = [handler EXCEPT !.pc = "append_x"]
    /\ UNCHANGED <<otherVars, accel_x_queue, accel_y_queue, accel_z_queue, slTable,
                   resp, effect, data_lock, ready, viewer>>

\* data_store.accel_x_queue.append(x)
HAppendX ==
    /\ server = "sl"
    /\ handler.pc = "append_x"
    /\ accel_x_queue' = DequeAppend(accel_x_queue, handler.row.x)
    /\ handler' = [handler EXCEPT !.pc = "append_y"]
    /\ UNCHANGED <<otherVars, time_queue, queue_client, accel_y_queue, accel_z_queue,
                   slTable, resp, effect, data_lock, ready, viewer>>

\* data_store.accel_y_queue.append(y)
HAppendY ==
    /\ server = "sl"
    /\ handler.pc = "append_y"
    /\ accel_y_queue' = DequeAppend(accel_y_queue, handler.row.y)
    /\ handler' = [handler EXCEPT !.pc = "append_z"]
    /\ UNCHANGED <<otherVars, time_queue, queue_client, accel_x_queue, accel_z_queue,
                   slTable, resp, effect, data_lock, ready, viewer>>

\* the loop body without its last append
HAppendZDropped ==
    /\ server = "sl"
    /\ handler.pc = "append_z"
    /\ handler' = [handler EXCEPT !.pc = "loop", !.i = @ + 1]
    /\ UNCHANGED <<otherVars, queueVars, slTable, resp, effect, data_lock, ready, viewer>>

\* data_store.accel_z_queue.append(z), the end of the loop body
HAppendZ ==
    /\ server = "sl"
    /\ handler.pc = "append_z"
    /\ accel_z_queue' = DequeAppend(accel_z_queue, handler.row.z)
    /\ handler' = [handler EXCEPT !.pc = "loop", !.i = @ + 1]
    /\ UNCHANGED <<otherVars, time_queue, queue_client, accel_x_queue, accel_y_queue,
                   slTable, resp, effect, data_lock, ready, viewer>>

\* a handler whose lock is released at the end of the loop only, not when an
\* exception leaves it
HExitLeaking ==
    /\ server = "sl"
    /\ handler.pc = "exit"
    /\ data_lock' = IF handler.error = None THEN "free" ELSE data_lock
    /\ resp' = IF handler.error = None
               THEN [http |-> 200, status |-> "success"]
               ELSE ErrorResponse(handler.error[1])
    /\ effect' = [routed |-> handler.calls,
                  inserted |-> Len(slTable) - handler.rows,
                  unsupported |-> handler.unsupported]
    /\ handler' = Idle
    /\ UNCHANGED <<otherVars, queueVars, slTable, ready, viewer>>

\* The with block is left, by the end of the loop or by an exception, and
\* the lock released; the handler returns its answer.
HExit ==
    /\ server = "sl"
    /\ handler.pc = "exit"
    /\ data_lock' = "free"
    /\ resp' = IF handler.error = None
               THEN [http |-> 200, status |-> "success"]
               ELSE ErrorResponse(handler.error[1])
    /\ effect' = [routed |-> handler.calls,
                  inserted |-> Len(slTable) - handler.rows,
                  unsupported |-> handler.unsupported]
    /\ handler' = Idle
    /\ UNCHANGED <<otherVars, queueVars, slTable, ready, viewer>>

\* a snapshot that does not wait for the lock
VAcquireNoWait ==
    /\ server = "sl"
    /\ viewer.pc = "idle"
    /\ data_lock' = "viewer"
    /\ viewer' = [pc |-> "time", Time |-> <<>>, X |-> <<>>, Y |-> <<>>, Z |-> <<>>]
    /\ UNCHANGED <<otherVars, queueVars, slTable, resp, effect, ready, handler>>

\* update_visualization: `with data_store.data_lock:`
VAcquire ==
    /\ server = "sl"
    /\ viewer.pc = "idle"
    /\ data_lock = "free"
    /\ data_lock' = "viewer"
    /\ viewer' = [pc |-> "time", Time |-> <<>>, X |-> <<>>, Y |-> <<>>, Z |-> <<>>]
    /\ UNCHANGED <<otherVars, queueVars, slTable, resp, effect, ready, handler>>

\* "Time": list(data_store.time_queue)
VCopyTime ==
    /\ server = "sl"
    /\ viewer.pc = "time"
    /\ viewer' = [viewer EXCEPT !.pc = "x", !.Time = time_queue]
    /\ UNCHANGED <<otherVars, queueVars, slTable, resp, effect, data_lock, ready, handler>>

\* "X": list(data_store.accel_x_queue)
VCopyX ==
    /\ server = "sl"
    /\ viewer.pc = "x"
    /\ viewer' = [viewer EXCEPT !.pc = "y", !.X = accel_x_queue]
    /\ UNCHANGED <<otherVars, queueVars, slTable, resp, effect, data_lock, ready, handler>>

\* "Y": list(data_store.accel_y_queue)
VCopyY ==
    /\ server = "sl"
    /\ viewer.pc = "y"
    /\ viewer' = [viewer EXCEPT !.pc = "z", !.Y = accel_y_queue]
    /\ UNCHANGED <<otherVars, queueVars, slTable, resp, effect, data_lock, ready, handler>>

\* "Z": list(data_store.accel_z_queue)
VCopyZ ==
    /\ server = "sl"
    /\ viewer.pc = "z"
    /\ viewer' = [viewer EXCEPT !.pc = "release", !.Z = accel_z_queue]
    /\ UNCHANGED <<otherVars, queueVars, slTable, resp, effect, data_lock, ready, handler>>

\* the with block of update_visualization is left: current_data is complete
VRelease ==
    /\ server = "sl"
    /\ viewer.pc = "release"
    /\ data_lock' = "free"
    /\ viewer' = [viewer EXCEPT !.pc = "idle"]
    /\ UNCHANGED <<otherVars, queueVars, slTable, resp, effect, ready, handler>>

InitThreads == InitWith({"sl"}, PreFilled(0))

NextThreads ==
    \/ \E c \in Callers, b \in ThreadBodies : Arrive(c, b)
    \/ \E c \in Callers : HStart(c)
    \/ HAcquire
    \/ HLoop
    \/ \E fails \in BOOLEAN : HStore(fails)
    \/ HTest
    \/ HAppendTime
    \/ HAppendX
    \/ HAppendY
    \/ HAppendZ
    \/ HExit
    \/ VAcquire
    \/ VCopyTime
    \/ VCopyX
    \/ VCopyY
    \/ VCopyZ
    \/ VRelease

SpecThreads == InitThreads /\ [][NextThreads]_vars

\* the statements of a request that wait for nothing
HRun ==
    \/ HLoop
    \/ \E fails \in BOOLEAN : HStore(fails)
    \/ HTest
    \/ HAppendTime
    \/ HAppendX
    \/ HAppendY
    \/ HAppendZ
    \/ HExit

\* the statements of update_visualization that wait for nothing
VRun == VCopyTime \/ VCopyX \/ VCopyY \/ VCopyZ \/ VRelease

\* Fair scheduling.  The FastAPI thread and the main thread both keep
\* running (weak fairness of the statements that wait for nothing); the
\* event loop runs the coroutines that are ready in turn, and a thread that
\* waits for the lock gets it if the lock is released again and again
\* (strong fairness of the start of a request and of the two acquires).
\* while True: update_visualization(...) asks for a snapshot for ever.
FairThreads ==
    /\ \A c \in Callers : SF_vars(HStart(c))
    /\ SF_vars(HAcquire)
    /\ WF_vars(HRun)
    /\ SF_vars(VAcquire)
    /\ WF_vars(VRun)

\* the requests of the fair runs: a batch that raises at its second record
\* and a batch that does not raise
LiveBodies == {PayloadOf(<<A1, NoZ>>), PayloadOf(<<A2>>)}

NextLive ==
    \/ \E c \in Callers, b \in LiveBodies : Arrive(c, b)
    \/ \E c \in Callers : HStart(c)
    \/ HAcquire
    \/ HRun
    \/ VAcquire
    \/ VRun

SpecThreadsFair == InitThreads /\ [][NextLive]_vars /\ FairThreads

-----------------------------------------------------------------------------

(* smartphone_sensor_data.py: the dominant frequencies of the spectrograms.  *)
(* A power is a whole number of units of 1e-10 (the epsilon of the H/V       *)
(* function), a level in dB a whole number of units of 1/200 dB, and a       *)
(* frequency a whole number of hundredths of a hertz.                        *)

\* frequency bins of a spectrogram of the model
NumBins == 2

epsilon == 1

\* -inf, the level np.log10 gives a power of 0
NegInf == -1000000

\* 10 * np.log10(p) for the powers of the model: 2e-10 is -96.99 dB, 1e-2 is
\* -20 dB and 0.2 is -6.99 dB
Log10Db(p) ==
    CASE p = 0 -> NegInf
      [] p = 2 -> -19398
      [] p = 100000000 -> -4000
      [] p = 2000000000 -> -1398

RECURSIVE SumFrom(_, _)
SumFrom(row, j) == IF j > Len(row) THEN 0 ELSE row[j] + SumFrom(row, j + 1)

\* np.sum(Sxx, axis=1): the power of each frequency bin over all time segments
SumAxis1(Sxx) == [i \in 1..Len(Sxx) |-> SumFrom(Sxx[i], 1)]

\* np.maximum(Sxx, epsilon)
Maximum(Sxx, e) ==
    [i \in 1..Len(Sxx) |->
        [j \in 1..Len(Sxx[i]) |-> IF Sxx[i][j] > e THEN Sxx[i][j] ELSE e]]

\* np.max of a non-empty array
Max(a) == CHOOSE m \in {a[i] : i \in 1..Len(a)} : \A i \in 1..Len(a) : a[i] <= m

\* np.argmax of a non-empty array: the first index of the maximum
ArgMax(a) ==
    CHOOSE i \in 1..Len(a) :
        /\ a[i] = Max(a)
        /\ \A j \in 1..(i - 1) : a[j] # Max(a)

\* the test of the maximum written `>=`
extract_dominant_frequency_ge(Sxx, f, threshold) ==
    LET total_power == SumAxis1(Sxx)
        total_power_db == [i \in 1..Len(total_power) |-> Log10Db(total_power[i])]
        dominant_frequency_index == ArgMax(total_power_db)
    IN  IF total_power_db[dominant_frequency_index] >= threshold
        THEN f[dominant_frequency_index]
        ELSE 0

extract_dominant_frequency(Sxx, f, threshold) ==
    LET total_power == SumAxis1(Sxx)
        total_power_db == [i \in 1..Len(total_power) |-> Log10Db(total_power[i])]
        dominant_frequency_index == ArgMax(total_power_db)
    IN  IF total_power_db[dominant_frequency_index] > threshold
        THEN f[dominant_frequency_index]
        ELSE 0

Return(v) == [kind |-> "return", value |-> v]

\* the check passed only by a set of axes that all fail it
AllBelowThreshold(levels, threshold) ==
    \A k \in 1..Len(levels) : Max(levels[k]) < threshold

\* for ss in [Sxx_x_db, Sxx_y_db, Sxx_z_db]: if np.max(ss) < power_threshold
BelowThreshold(levels, threshold) ==
    \E k \in 1..Len(levels) : Max(levels[k]) < threshold

\* np.where(hv_ratio_db > power_threshold)[0]: the indices, in increasing order
WhereAbove(hv_ratio_db, threshold) ==
    SelectSeq([i \in 1..Len(hv_ratio_db) |-> i],
              LAMBDA i : hv_ratio_db[i] > threshold)

\* np.argmax(hv_ratio_db[valid_indices]) taken as an index of hv_ratio_db
DominantIndexUnmapped(hv_ratio_db, valid_indices) ==
    ArgMax([k \in 1..Len(valid_indices) |-> hv_ratio_db[valid_indices[k]]])

\* valid_indices[np.argmax(hv_ratio_db[valid_indices])]
DominantIndex(hv_ratio_db, valid_indices) ==
    valid_indices[ArgMax([k \in 1..Len(valid_indices) |-> hv_ratio_db[valid_indices[k]]])]

\* The body of the try block of extract_h_over_v_dominant_frequency: what it
\* returns, or the exception it raises.  The levels of the model are even, so
\* the mean of two is a whole number.
HvBody(d, threshold) ==
    LET Sxx_x == Maximum(d.X.Sxx, epsilon)
        Sxx_y == Maximum(d.Y.Sxx, epsilon)
        Sxx_z == Maximum(d.Z.Sxx, epsilon)
        Sxx_x_db == [i \in 1..Len(Sxx_x) |-> Log10Db(SumAxis1(Sxx_x)[i])]
        Sxx_y_db == [i \in 1..Len(Sxx_y) |-> Log10Db(SumAxis1(Sxx_y)[i])]
        Sxx_z_db == [i \in 1..Len(Sxx_z) |-> Log10Db(SumAxis1(Sxx_z)[i])]
    IN  IF BelowThreshold(<<Sxx_x_db, Sxx_y_db, Sxx_z_db>>, threshold)
        THEN Return(0)
        ELSE IF Len(Sxx_x_db) # Len(Sxx_y_db)
        THEN Raise("ValueError: operands could not be broadcast together")
        ELSE IF d.X.f # d.Y.f \/ d.X.f # d.Z.f
        THEN Raise("ValueError: Frequency arrays for X, Y, and Z components must match.")
        ELSE IF Len(Sxx_x_db) # Len(Sxx_z_db)
        THEN Raise("ValueError: operands could not be broadcast together")
        ELSE LET Sxx_h_db == [i \in 1..Len(Sxx_x_db) |->
                                (Sxx_x_db[i] + Sxx_y_db[i]) \div 2]
                 hv_ratio_db == [i \in 1..Len(Sxx_h_db) |-> Sxx_h_db[i] - Sxx_z_db[i]]
                 valid_indices == WhereAbove(hv_ratio_db, threshold)
             IN  IF valid_indices = <<>>
                 THEN Raise("ValueError: attempt to get argmax of an empty sequence")
                 ELSE Return(d.X.f[DominantIndex(hv_ratio_db, valid_indices)])

\* the function without its except clause
extract_h_over_v_dominant_frequency_unguarded(d, threshold) == HvBody(d, threshold)

\* the whole function: `except Exception` logs the error and returns 0.0
extract_h_over_v_dominant_frequency(d, threshold) ==
    LET r == HvBody(d, threshold)
    IN  IF r.kind = "raise" THEN Return(0) ELSE r

\* Spectrograms of two time segments: a silent bin, a bin of 1e-2 and a bin
\* of 0.2 in all.
PowerRows == {<<0, 0>>, <<1, 99999999>>, <<1000000000, 1000000000>>}

Spectrograms == [1..NumBins -> PowerRows]

\* 0.05 Hz, 0.10 Hz, ...
BaseGrid == [i \in 1..NumBins |-> 5 * i]

ShiftedGrid == [i \in 1..NumBins |-> 5 * i + 1]

LongerGrid == [i \in 1..(NumBins + 1) |-> 5 * i]

\* the frequencies of X, Y and Z: equal, or those of Y or of Z different
GridTriples ==
    { <<BaseGrid, BaseGrid, BaseGrid>>, <<BaseGrid, ShiftedGrid, BaseGrid>>,
      <<BaseGrid, BaseGrid, LongerGrid>> }

\* -20 dB, the level of a bin of the model, and -10 dB (the default of
\* update_visualization)
Thresholds == {-4000, -2000}

Axes == {"X", "Y", "Z"}

InitSpectra ==
    /\ InitServers({"pg"}, PreFilled(0))
    /\ InitBoot
    /\ ~use_port
    /\ InitTags
    /\ InitQueries
    /\ \E sx \in Spectrograms, sy \in Spectrograms, sz \in Spectrograms,
          g \in GridTriples :
         Sxx_f_dict = [X |-> [Sxx |-> sx, f |-> g[1]],
                       Y |-> [Sxx |-> sy, f |-> g[2]],
                       Z |-> [Sxx |-> sz, f |-> g[3]]]
    /\ power_threshold \in Thresholds
    /\ dominant_frequencies = [a \in Axes |-> 0]
    /\ hv_dominant_frequency = 0

\* update_visualization: the dominant frequency of each axis, then the H/V one
UpdateVisualization ==
    /\ dominant_frequencies' =
          [a \in Axes |-> extract_dominant_frequency(
                              Sxx_f_dict[a].Sxx, Sxx_f_dict[a].f, power_threshold)]
    /\ hv_dominant_frequency' =
          extract_h_over_v_dominant_frequency(Sxx_f_dict, power_threshold).value
    /\ UNCHANGED <<server, use_port, pgTables, faTables, slTable, queueVars, ssFiles,
                   resp, effect, sweepVars, threadVars, bootVars,
                   tagVars, queryVars,
                   Sxx_f_dict, power_threshold>>

SpecSpectra == InitSpectra /\ [][UpdateVisualization]_vars

-----------------------------------------------------------------------------


(* client_tags.py: the registry of client tags *)

\* calls of add_or_update_tag in a run of the model
MaxUpserts == 3

\* ON CONFLICT(client_ip) DO NOTHING: the tag a client has is kept
add_or_update_tag_ignore(table, client_ip, tag) ==
    IF \E k \in 1..Len(table) : table[k].client_ip = client_ip
    THEN table
    ELSE Append(table, [client_ip |-> client_ip, tag |-> tag])

\* INSERT INTO client_tags (client_ip, tag) VALUES (?, ?)
\* ON CONFLICT(client_ip) DO UPDATE SET tag = excluded.tag
add_or_update_tag(table, client_ip, tag) ==
    IF \E k \in 1..Len(table) : table[k].client_ip = client_ip
    THEN [k \in 1..Len(table) |->
            IF table[k].client_ip = client_ip
            THEN [table[k] EXCEPT !.tag = tag]
            ELSE table[k]]
    ELSE Append(table, [client_ip |-> client_ip, tag |-> tag])

\* {row[0]: row[1] for row in cursor.fetchall()}: a later row of a client_ip
\* replaces an earlier one
get_tags(table) ==
    [c \in {table[k].client_ip : k \in 1..Len(table)} |->
        LET last == CHOOSE k \in 1..Len(table) :
                        /\ table[k].client_ip = c
                        /\ \A j \in (k + 1)..Len(table) : table[j].client_ip # c
        IN  table[last].tag]

TagClients == {<<"1.2.3.4">>, <<"1.2.3.4", 50001>>, <<"5.6.7.8">>}

Tags == {"desk", "roof"}

\* main: the button "Save Tag"
SaveTag(client_ip, new_tag) ==
    /\ Len(upserts) < MaxUpserts
    /\ client_tags' = add_or_update_tag(client_tags, client_ip, new_tag)
    /\ upserts' = Append(upserts, <<client_ip, new_tag>>)
    /\ UNCHANGED <<server, use_port, pgTables, faTables, slTable, queueVars, ssFiles,
                   resp, effect, sweepVars, threadVars, bootVars,
                   signalVars, queryVars>>

InitRegistry == InitWith({"pg"}, PreFilled(0))

NextRegistry == \E c \in TagClients, t \in Tags : SaveTag(c, t)

SpecRegistry == InitRegistry /\ [][NextRegistry]_vars

-----------------------------------------------------------------------------


(* The queries of the dashboards: smartphone_sensor_data.py over the        *)
(* PostgreSQL tables, plot_sqlite_acceleration_data.py over their export.   *)

sensor_data_to_store == "accelerometer"

\* SELECT DISTINCT client_ip FROM accelerometer_data, the query without WHERE
get_all_client_ip_ever(tables, clock) ==
    {tables[sensor_data_to_store][k].client_ip :
        k \in 1..Len(tables[sensor_data_to_store])}

\* SELECT DISTINCT client_ip FROM accelerometer_data
\* WHERE timestamp >= NOW() - INTERVAL '60 seconds'
get_all_client_ip(tables, clock) ==
    LET t == tables[sensor_data_to_store]
    IN  {t[k].client_ip :
            k \in {j \in 1..Len(t) : ~TsLess(t[j].timestamp, <<clock - 60, 0>>)}}

RECURSIVE InsertByTimestamp(_, _)
InsertByTimestamp(sorted, row) ==
    IF sorted = <<>> THEN <<row>>
    ELSE IF TsLess(row.timestamp, Head(sorted).timestamp) THEN <<row>> \o sorted
    ELSE <<Head(sorted)>> \o InsertByTimestamp(Tail(sorted), row)

RECURSIVE OrderByTimestampFrom(_, _)
OrderByTimestampFrom(rows, i) ==
    IF i = 0 THEN <<>>
    ELSE InsertByTimestamp(OrderByTimestampFrom(rows, i - 1), rows[i])

\* ORDER BY timestamp ASC
OrderByTimestamp(rows) == OrderByTimestampFrom(rows, Len(rows))

\* SELECT timestamp, x, y, z
SelectColumns(rows) ==
    [k \in 1..Len(rows) |->
        [timestamp |-> rows[k].timestamp, x |-> rows[k].x, y |-> rows[k].y,
         z |-> rows[k].z]]

\* the query without its ORDER BY: the rows as the table holds them
get_last_samples_unordered(tables, clock, client_ip, duration) ==
    SelectColumns(
        SelectSeq(tables[sensor_data_to_store],
                  LAMBDA row : /\ row.client_ip = client_ip
                               /\ ~TsLess(row.timestamp, <<clock - duration, 0>>)))

\* SELECT timestamp, x, y, z FROM accelerometer_data WHERE client_ip = ...
\* AND timestamp >= NOW() - INTERVAL '{duration} seconds' ORDER BY timestamp ASC
get_last_samples(tables, clock, client_ip, duration) ==
    SelectColumns(OrderByTimestamp(
        SelectSeq(tables[sensor_data_to_store],
                  LAMBDA row : /\ row.client_ip = client_ip
                               /\ ~TsLess(row.timestamp, <<clock - duration, 0>>))))

\* SELECT timestamp, x, y, z FROM accelerometer_data
\* WHERE client_ip = ? AND timestamp BETWEEN ? AND ? ORDER BY timestamp
get_accelerometer_data_by_range(table, client_ip, start_time, end_time) ==
    SelectColumns(OrderByTimestamp(
        SelectSeq(table,
                  LAMBDA row : /\ row.client_ip = client_ip
                               /\ ~TsLess(row.timestamp, start_time)
                               /\ ~TsLess(end_time, row.timestamp))))

\* Accelerometer samples 61 s, 60 s and 5 s before the start of the clock of
\* the model, and one of a phone whose clock is 2 minutes ahead.
QueryRecords ==
    { Motion("accelerometer", <<RetentionSeconds - 61, 0>>, V1),
      Motion("accelerometer", <<RetentionSeconds - 60, 0>>, V2),
      Motion("accelerometer", <<RetentionSeconds - 5, 0>>, V1),
      Motion("accelerometer", <<RetentionSeconds + 120, 0>>, V2) }

\* the client_ips the server gives the callers of the model
ClientIps == {ClientIp(c, use_port) : c \in Callers}

\* of the steps of the slider "Select Duration (seconds)"
Durations == {10, 60}

RangeEnds == {<<RetentionSeconds - 60, 0>>, <<RetentionSeconds - 5, 0>>}

\* main: get_all_client_ip() fills the list of clients
Discover ==
    /\ server = "pg"
    /\ client_ips' = get_all_client_ip(pgTables, now)
    /\ UNCHANGED <<server, use_port, pgTables, faTables, slTable, queueVars, ssFiles,
                   resp, effect, sweepVars, threadVars, bootVars,
                   signalVars, tagVars, df>>

\* update_visualization: df = get_last_samples(client_ip, duration)
Fetch(client_ip, duration) ==
    /\ server = "pg"
    /\ df' = get_last_samples(pgTables, now, client_ip, duration)
    /\ UNCHANGED <<server, use_port, pgTables, faTables, slTable, queueVars, ssFiles,
                   resp, effect, sweepVars, threadVars, bootVars,
                   signalVars, tagVars, client_ips>>

\* plot_sqlite_acceleration_data.py, main: the rows of a client in a range,
\* read from the export of the accelerometer table
FetchRange(client_ip, start_time, end_time) ==
    /\ server = "pg"
    /\ df' = get_accelerometer_data_by_range(
                pgTables[sensor_data_to_store], client_ip, start_time, end_time)
    /\ UNCHANGED <<server, use_port, pgTables, faTables, slTable, queueVars, ssFiles,
                   resp, effect, sweepVars, threadVars, bootVars,
                   signalVars, tagVars, client_ips>>

InitQuery == InitWith({"pg"}, PreFilled(0))

NextQuery ==
    \/ \E c \in Callers, r \in QueryRecords : PgUpload(c, PayloadOf(<<r>>), 0)
    \/ Tick
    \/ Discover
    \/ \E c \in ClientIps, d \in Durations : Fetch(c, d)
    \/ \E c \in ClientIps, s \in RangeEnds, e \in RangeEnds : FetchRange(c, s, e)

SpecQuery == InitQuery /\ [][NextQuery]_vars

-----------------------------------------------------------------------------------------------------------------------------------------------------
(* datacollection_postgresql.py: startup() and create_database_if_not_exists, *)
(* statement by statement.  `conn` is the local variable of the function:    *)
(* "unbound" until asyncpg.connect has returned.                             *)

bootOther ==
    <<server, use_port, pgTables, faTables, slTable, queueVars, ssFiles, resp, effect,
      sweepVars, threadVars, signalVars, tagVars, queryVars>>

\* conn = await asyncpg.connect(database="postgres", ...)
DbConnect(fails) ==
    /\ server = "pg"
    /\ startup.pc = "connect"
    /\ startup' = IF fails THEN [startup EXCEPT !.pc = "except"]
                  ELSE [startup EXCEPT !.pc = "fetch", !.conn = "open"]
    /\ UNCHANGED bootOther

\* result = await conn.fetch(query); if not result: ... else: logger.info(...)
DbFetch(fails) ==
    /\ server = "pg"
    /\ startup.pc = "fetch"
    /\ startup' = IF fails THEN [startup EXCEPT !.pc = "except"]
                  ELSE IF startup.db_exists
                  THEN [startup EXCEPT !.pc = "finally",
                                       !.logged = Append(@, "already exists")]
                  ELSE [startup EXCEPT !.pc = "create"]
    /\ UNCHANGED bootOther

\* await conn.execute(f"CREATE DATABASE ..."); logger.info(...)
DbCreate(fails) ==
    /\ server = "pg"
    /\ startup.pc = "create"
    /\ startup' = IF fails THEN [startup EXCEPT !.pc = "except"]
                  ELSE [startup EXCEPT !.pc = "finally", !.db_exists = TRUE,
                                       !.logged = Append(@, "created successfully")]
    /\ UNCHANGED bootOther

\* except Exception as e: logger.error(f"Error creating database: {e}")
DbExcept ==
    /\ server = "pg"
    /\ startup.pc = "except"
    /\ startup' = [startup EXCEPT !.pc = "finally",
                                  !.logged = Append(@, "Error creating database")]
    /\ UNCHANGED bootOther

\* finally: await conn.close().  With `conn` unbound the statement raises
\* UnboundLocalError, which leaves the function and startup().
DbFinally ==
    /\ server = "pg"
    /\ startup.pc = "finally"
    /\ startup' = IF startup.conn = "unbound"
                  THEN [startup EXCEPT !.pc = "db_raised",
                                       !.raised = Some("UnboundLocalError: conn")]
                  ELSE [startup EXCEPT !.pc = "pool", !.conn = "closed"]
    /\ UNCHANGED bootOther

\* app.state.db_pool = await asyncpg.create_pool(database=DB_CONFIG["dbname"],
\* ...), which raises when the database is not there; then the tables and
\* the cleanup task.
CreatePool(fails) ==
    /\ server = "pg"
    /\ startup.pc = "pool"
    /\ startup' = IF fails \/ ~startup.db_exists
                  THEN [startup EXCEPT !.pc = "pool_raised",
                                       !.raised = Some("create_pool")]
                  ELSE [startup EXCEPT !.pc = "done", !.db_pool = "open"]
    /\ UNCHANGED bootOther

\* the server before startup(), the database there or not
InitStartup ==
    /\ InitServers({"pg"}, PreFilled(0))
    /\ InitTags
    /\ InitQueries
    /\ InitSignal
    /\ \E e \in BOOLEAN :
         startup = [pc |-> "connect", conn |-> "unbound", db_exists |-> e,
                    db_pool |-> "none", logged |-> <<>>, raised |-> None]

\* startup(), and the requests served once it has returned
NextStartup ==
    \/ \E fails \in BOOLEAN : DbConnect(fails)
    \/ \E fails \in BOOLEAN : DbFetch(fails)
    \/ \E fails \in BOOLEAN : DbCreate(fails)
    \/ DbExcept
    \/ DbFinally
    \/ \E fails \in BOOLEAN : CreatePool(fails)
    \/ /\ startup.pc = "done"
       /\ \E c \in Callers, r \in QueryRecords : PgUpload(c, PayloadOf(<<r>>), 0)

SpecStartup == InitStartup /\ [][NextStartup]_vars

-----

(* Properties *)

\* a well-formed record of one of the sensors in `supported`
IsSample(r, supported) ==
    /\ IsObject(r)
    /\ {"name", "time", "values"} \subseteq DOMAIN r
    /\ r.name \in supported
    /\ {"x", "y", "z"} \subseteq DOMAIN r.values

PgSamples == {r \in PgRecords : IsSample(r, sensor_data_list_to_store)}

FaSamples == {r \in FaRecords : IsSample(r, fa_sensor_data_list_to_store)}

SlSamples == {r \in SlRecords \cup FullRecords : IsSample(r, {"accelerometer"})}

\* rows of a table that hold the timestamp
RowsAt(table, ts) == Cardinality({k \in 1..Len(table) : table[k].timestamp = ts})

\* a row of the table holds the sample of the record as sent by the client
PgHasKey(tables, r, client_ip) ==
    \E k \in 1..Len(tables[r.name]) :
        /\ tables[r.name][k].timestamp = FromTimestamp(r.time)
        /\ tables[r.name][k].client_ip = client_ip

Succeeded(h) == Has(h.resp, "status") /\ h.resp.status = "success"

PgOnce(c, items) == PgHandle(pgTables, use_port, c, PayloadOf(items), 0)

FaOnce(items) == FaHandle(faTables, PayloadOf(items), 0)

SlOnce(items) == SlHandle(SlState, PayloadOf(items), 0)

\* C1: Submitting a sample again changes nothing in the durable store: in
\* every reachable state of each database server, and for every sample, the
\* tables after the sample was sent twice (in two requests, or twice in one)
\* equal the tables after it was sent once, and hold exactly one row of the
\* sample's timestamp.
C1_InsertIdempotent ==
    /\ server = "pg" =>
         \A c \in Callers, r \in PgSamples :
            LET h1 == PgOnce(c, <<r>>)
                h2 == PgHandle(h1.tables, use_port, c, PayloadOf(<<r>>), 0)
            IN  /\ Succeeded(h1) /\ Succeeded(h2)
                /\ h2.tables = h1.tables
                /\ PgOnce(c, <<r, r>>).tables = h1.tables
                /\ RowsAt(h2.tables[r.name], FromTimestamp(r.time)) = 1
    /\ server = "fa" =>
         \A r \in FaSamples :
            LET h1 == FaOnce(<<r>>)
                h2 == FaHandle(h1.tables, PayloadOf(<<r>>), 0)
            IN  /\ Succeeded(h1) /\ Succeeded(h2)
                /\ h2.tables = h1.tables
                /\ FaOnce(<<r, r>>).tables = h1.tables
                /\ RowsAt(h2.tables[r.name], FromTimestamp(r.time)) = 1
    /\ server = "sl" =>
         \A r \in SlSamples :
            LET h1 == SlOnce(<<r>>)
                h2 == SlHandle(h1.st, PayloadOf(<<r>>), 0)
            IN  /\ Succeeded(h1) /\ Succeeded(h2)
                /\ h2.st.table = h1.st.table
                /\ SlOnce(<<r, r>>).st.table = h1.st.table
                /\ RowsAt(h2.st.table, FromTimestamp(r.time)) = 1

\* C1 witness: the one gravity sample of the model was sent a second time by
\* the same client: the request routed one sample and added no row.
C1_Witness ==
    /\ server = "pg" /\ ~use_port
    /\ Succeeded([resp |-> resp])
    /\ effect = [routed |-> 1, inserted |-> 0, unsupported |-> 0]
    /\ Len(pgTables["gravity"]) = 1
    /\ \A n \in PgTableNames \ {"gravity"} : pgTables[n] = <<>>

\* C2 (as claimed): the durable key is (sensor type, client, timestamp): in
\* every reachable state a sample sent by any client is, after its request
\* succeeded, held in a row of that sensor's table with that client and that
\* timestamp, whatever rows other clients have stored.
C2_KeyIncludesClient ==
    server = "pg" =>
        \A c \in Callers, r \in PgSamples :
            LET h == PgOnce(c, <<r>>)
            IN  Succeeded(h) => PgHasKey(h.tables, r, ClientIp(c, use_port))

\* C3 (as claimed): a batch that mixes a sample whose key (sensor type,
\* client, timestamp) is stored with one whose key is new is answered with
\* success, and the new sample is stored.
C3_NewKeysStored ==
    /\ server = "pg" =>
         \A c \in Callers, r1 \in PgSamples, r2 \in PgSamples :
            LET cl == ClientIp(c, use_port)
                h == PgOnce(c, <<r1, r2>>)
            IN  PgHasKey(pgTables, r1, cl) /\ ~PgHasKey(pgTables, r2, cl)
                => Succeeded(h) /\ PgHasKey(h.tables, r2, cl)
    /\ server = "fa" =>
         \A r1 \in FaSamples, r2 \in FaSamples :
            LET h == FaOnce(<<r1, r2>>)
            IN  /\ RowsAt(faTables[r1.name], FromTimestamp(r1.time)) = 1
                /\ RowsAt(faTables[r2.name], FromTimestamp(r2.time)) = 0
                => Succeeded(h) /\ RowsAt(h.tables[r2.name], FromTimestamp(r2.time)) = 1
    /\ server = "sl" =>
         \A r1 \in SlSamples, r2 \in SlSamples :
            LET h == SlOnce(<<r1, r2>>)
            IN  /\ RowsAt(slTable, FromTimestamp(r1.time)) = 1
                /\ RowsAt(slTable, FromTimestamp(r2.time)) = 0
                => Succeeded(h) /\ RowsAt(h.st.table, FromTimestamp(r2.time)) = 1

\* C5 (as claimed): a malformed record is skipped: a batch of a well-formed
\* sample and a malformed record, in either order, is answered with success
\* and the sample is stored.
C5_MalformedSkipped ==
    /\ server = "pg" =>
         \A c \in Callers, r \in PgSamples, m \in Malformed \ {NotAnObject} :
            \A items \in {<<r, m>>, <<m, r>>} :
                LET h == PgOnce(c, items)
                IN  /\ Succeeded(h)
                    /\ RowsAt(h.tables[r.name], FromTimestamp(r.time)) = 1
    /\ server = "fa" =>
         \A r \in FaSamples, m \in Malformed \ {NotAnObject} :
            \A items \in {<<r, m>>, <<m, r>>} :
                LET h == FaOnce(items)
                IN  /\ Succeeded(h)
                    /\ RowsAt(h.tables[r.name], FromTimestamp(r.time)) = 1
    /\ server = "sl" =>
         \A r \in SlSamples, m \in Malformed \ {NotAnObject} :
            \A items \in {<<r, m>>, <<m, r>>} :
                LET h == SlOnce(items)
                IN  /\ Succeeded(h)
                    /\ RowsAt(h.st.table, FromTimestamp(r.time)) = 1

\* the answer is a normal response that carries status "success" or "error"
StatusObject(r) ==
    r.http = 200 /\ Has(r, "status") /\ r.status \in {"success", "error"}

\* C4 (as claimed): whatever the request and whatever the store does, every
\* ingestion endpoint answers with a status object, never with an HTTP error.
C4_AlwaysStatusObject == resp = [http |-> 0] \/ StatusObject(resp)

\* C4 (amended): the endpoints of the three database servers answer every
\* request, a storage failure included, with a status object.
C4_DatabaseServersStatusObject ==
    server \in {"pg", "fa", "sl"} => resp = [http |-> 0] \/ StatusObject(resp)

\* C4 witness: a store call of the PostgreSQL server failed and the request
\* was answered with status "error".
C4_Witness ==
    /\ server = "pg"
    /\ StatusObject(resp) /\ resp.status = "error"
    /\ resp.message = "storage failure"

IsNonDecreasing(q) == \A i \in 1..(Len(q) - 1) : ~TsLess(q[i + 1], q[i])

IsIncreasing(q) == \A i \in 1..(Len(q) - 1) : TsLess(q[i], q[i + 1])

\* C6: in every reachable state the timestamps of the deque are in
\* non-decreasing order from oldest to newest (and the four deques have one
\* length).
C6_QueueOrdered ==
    /\ IsNonDecreasing(time_queue)
    /\ Len(accel_x_queue) = Len(time_queue)
    /\ Len(accel_y_queue) = Len(time_queue)
    /\ Len(accel_z_queue) = Len(time_queue)

\* C6 witness: a sample earlier than the newest entry arrived after it: the
\* request stored its row and the deque, of two entries, did not take it.
C6_Witness ==
    /\ server = "sl"
    /\ Len(time_queue) = 2
    /\ Len(slTable) = 3
    /\ effect = [routed |-> 1, inserted |-> 1, unsupported |-> 0]
    /\ TsLess(slTable[3].timestamp, time_queue[2])

Last(q) == q[Len(q)]

\* the n newest entries of a sequence
LastN(s, n) == IF Len(s) <= n THEN s ELSE SubSeq(s, Len(s) - n + 1, Len(s))

\* C7: in every reachable state, a sample whose timestamp is not after the
\* newest entry leaves the four deques as they are, a later one is appended
\* at their ends (a full deque dropping its oldest entry); and samples t1, t2, t1 with t1 < t2, t1 after the newest
\* entry, add exactly t1, t2.
C7_AdmitFrame ==
    server = "sl" =>
        /\ \A r \in SlSamples :
            LET ts == FromTimestamp(r.time)
                h == SlOnce(<<r>>)
            IN  IF time_queue # <<>> /\ ~TsLess(Last(time_queue), ts)
                THEN /\ h.st.time_queue = time_queue
                     /\ h.st.accel_x_queue = accel_x_queue
                     /\ h.st.accel_y_queue = accel_y_queue
                     /\ h.st.accel_z_queue = accel_z_queue
                ELSE /\ h.st.time_queue = LastN(Append(time_queue, ts), total_data_points)
                     /\ h.st.accel_x_queue = LastN(Append(accel_x_queue, r.values.x), total_data_points)
                     /\ h.st.accel_y_queue = LastN(Append(accel_y_queue, r.values.y), total_data_points)
                     /\ h.st.accel_z_queue = LastN(Append(accel_z_queue, r.values.z), total_data_points)
        /\ \A r1 \in SlSamples, r2 \in SlSamples :
            LET t1 == FromTimestamp(r1.time)
                t2 == FromTimestamp(r2.time)
            IN  /\ time_queue = <<>> \/ TsLess(Last(time_queue), t1)
                /\ TsLess(t1, t2)
                => SlOnce(<<r1, r2, r1>>).st.time_queue = time_queue \o <<t1, t2>>

\* C7 witness: t1 = 1 s and t2 = 2 s are in the deque and the last request
\* sent a sample already stored: nothing was added.
C7_Witness ==
    /\ server = "sl"
    /\ time_queue = << <<1, 0>>, <<2, 0>> >>
    /\ Len(slTable) = 2
    /\ Succeeded([resp |-> resp])
    /\ effect = [routed |-> 1, inserted |-> 0, unsupported |-> 0]

\* C8: the capacity is 60 x 50 = 3000; no deque ever holds more; and in every
\* reachable state two further samples, increasing and after the newest
\* entry, leave the deques holding the newest 3000 of the old entries followed
\* by the two: a full deque loses its oldest entry for each one it takes.
C8_Capacity ==
    /\ total_data_points = 3000
    /\ Len(time_queue) <= total_data_points
    /\ Len(accel_x_queue) <= total_data_points
    /\ Len(accel_y_queue) <= total_data_points
    /\ Len(accel_z_queue) <= total_data_points
    /\ server = "sl" =>
        \A r1 \in SlSamples, r2 \in SlSamples :
            LET t1 == FromTimestamp(r1.time)
                t2 == FromTimestamp(r2.time)
                h == SlOnce(<<r1, r2>>)
            IN  /\ time_queue = <<>> \/ TsLess(Last(time_queue), t1)
                /\ TsLess(t1, t2)
                => /\ h.st.time_queue
                        = LastN(time_queue \o <<t1, t2>>, total_data_points)
                   /\ h.st.accel_x_queue
                        = LastN(accel_x_queue \o <<r1.values.x, r2.values.x>>,
                                total_data_points)
                   /\ h.st.accel_y_queue
                        = LastN(accel_y_queue \o <<r1.values.y, r2.values.y>>,
                                total_data_points)
                   /\ h.st.accel_z_queue
                        = LastN(accel_z_queue \o <<r1.values.z, r2.values.z>>,
                                total_data_points)

\* C8 witness: the deque is full, its oldest entries have been dropped and
\* the sample of the last request is its newest entry.
C8_Witness ==
    /\ server = "sl"
    /\ Len(time_queue) = total_data_points
    /\ TsLess(<<0, 2>>, time_queue[1])
    /\ Last(time_queue) = <<3, 0>>
    /\ effect = [routed |-> 1, inserted |-> 1, unsupported |-> 0]

\* entries of the deque sent by the caller
OwnEntries(c) == {k \in 1..Len(time_queue) : queue_client[k] = c}

SweepCompletes == sweepPc # 0 /\ sweepPc' = 0 /\ sweepLog'.state = "completed"

\* one DELETE of a sweep that did not raise
SweepStatement == sweepPc # 0 /\ sweepPc' # sweepPc /\ sweepLog'.state # "failed"

NotBefore(ts, clock) == ~TsLess(ts, <<clock - RetentionSeconds, 0>>)

\* C10 (as claimed): when a sweep completes, no row of any swept table is
\* older than 24 hours.
C10_NoneExpiredAfterSweep ==
    [][SweepCompletes =>
        \A n \in PgTableNames : \A k \in 1..Len(pgTables'[n]) :
            NotBefore(pgTables'[n][k].timestamp, now')]_vars

\* C10 (amended): each DELETE of a sweep leaves in its table exactly the rows
\* that are not older than 24 hours at that moment, unchanged and in order,
\* and leaves every other table as it is; no other step, an insert during a
\* sweep included, removes or changes a row.
C10_EachDeleteExact ==
    [][IF SweepStatement
       THEN LET t == SweepOrder[sweepPc]
            IN  /\ pgTables'[t]
                    = SelectSeq(pgTables[t], LAMBDA row : NotBefore(row.timestamp, now))
                /\ \A n \in PgTableNames \ {t} : pgTables'[n] = pgTables[n]
       ELSE \A n \in PgTableNames :
                /\ Len(pgTables'[n]) >= Len(pgTables[n])
                /\ SubSeq(pgTables'[n], 1, Len(pgTables[n])) = pgTables[n]]_vars

\* C10 witness: a sweep completed that deleted a row and left one.
C10_Witness ==
    /\ sweepLog.state = "completed"
    /\ sweepLog.deleted >= 1
    /\ \E n \in PgTableNames : \E k \in 1..Len(pgTables[n]) :
            pgTables[n][k].timestamp = <<2 * SleepSeconds, 0>>

\* a statement of the sweep raised
SweepStatementFails == sweepLog'.failed = sweepLog.failed + 1

\* C11 (as claimed): when the DELETE of one table fails, the DELETEs of the
\* tables after it are still issued in the same sweep: the sweeper's next
\* statement is the DELETE of the next table.
C11_FailureIsolated ==
    [][SweepStatementFails /\ sweepPc < Len(SweepOrder)
        => sweepPc' = sweepPc + 1]_vars

\* the last instant of the model's clock
ClockEnd == RetentionSeconds + MaxTicks * SleepSeconds

\* C12: the sweeper never stops.  Every sweep attempt, failed or completed,
\* ends in a sleep of one period; the next attempt starts, from the first
\* table, only when the period is over; and (while the clock of the model
\* runs) every attempt ends and every failed attempt is followed by another.
C12_SweeperNeverStops ==
    /\ [][sweepPc # 0 /\ sweepPc' # sweepPc /\ sweepPc' # sweepPc + 1
            => sweepPc' = 0 /\ wakeAt' = now + SleepSeconds]_vars
    /\ [][sweepPc = 0 /\ sweepPc' # 0
            => sweepPc' = 1 /\ now >= wakeAt /\ sweepLog'.state = "running"]_vars
    /\ (sweepPc # 0) ~> (sweepPc = 0)
    /\ (sweepLog.state = "failed" /\ now + SleepSeconds <= ClockEnd)
            ~> (sweepLog.state = "running" /\ sweepPc = 1)

\* C12 witness: an attempt failed, and a later attempt is running.
C12_Witness ==
    /\ sweepLog.failed >= 1
    /\ sweepLog.state = "running"
    /\ sweepPc = 1
    /\ now >= wakeAt /\ wakeAt > RetentionSeconds

\* C13: a stored row stays, unchanged, through every step, an ingestion
\* request included, except the DELETE a sweep issues on the row's table at
\* a time when the row is older than 24 hours.
C13_OnlySweepDeletes ==
    [][\A n \in PgTableNames : \A k \in 1..Len(pgTables[n]) :
        \/ \E j \in 1..Len(pgTables'[n]) : pgTables'[n][j] = pgTables[n][k]
        \/ /\ sweepPc # 0 /\ sweepPc' # sweepPc
           /\ n = SweepOrder[sweepPc]
           /\ TsLess(pgTables[n][k].timestamp, <<now - RetentionSeconds, 0>>)]_vars

\* C13 witness: a sweep that has deleted a row is running, a request has
\* just stored a row, and a row that is not older than 24 hours is there.
C13_Witness ==
    /\ sweepLog.state = "running" /\ sweepPc > 1
    /\ sweepLog.deleted >= 1
    /\ Succeeded([resp |-> resp]) /\ effect.inserted = 1
    /\ \E k \in 1..Len(pgTables["accelerometer"]) :
            pgTables["accelerometer"][k].timestamp = <<2 * SleepSeconds, 0>>

IsPrefix(s, t) == Len(s) <= Len(t) /\ SubSeq(t, 1, Len(s)) = s

\* C14: a stored row is never changed: through every request, one that
\* sends a stored timestamp with other x, y, z included, every row of every
\* table of the three database servers stays as it was first inserted.
C14_RowsNeverChange ==
    [][/\ \A n \in PgTableNames : IsPrefix(pgTables[n], pgTables'[n])
       /\ \A n \in fa_sensor_data_list_to_store : IsPrefix(faTables[n], faTables'[n])
       /\ IsPrefix(slTable, slTable')]_vars

\* C14 witness: the accelerometer row of timestamp 1 s holds x, y, z = 4, 5, 6,
\* the last request sent a sample of a stored timestamp and added no row, and
\* the sample of that timestamp with x, y, z = 1, 2, 3 leaves the row as it is.
C14_Witness ==
    /\ server = "pg"
    /\ pgTables["accelerometer"] # <<>>
    /\ pgTables["accelerometer"][1].timestamp = <<1, 0>>
    /\ pgTables["accelerometer"][1].x = V2.x
    /\ effect = [routed |-> 1, inserted |-> 0, unsupported |-> 0]
    /\ PgOnce(FirstCaller, <<Motion("accelerometer", <<1, 0>>, V1)>>).tables = pgTables

\* the location record and the well-formed records of other names
PgLocation == {r \in PgRecords : IsObject(r) /\ Has(r, "name") /\ r.name = "location"}

\* a record without a name
Unnamed == [json |-> "object", time |-> <<1, 0>>, values |-> V1]

\* C15 (as claimed): a successful request's processed_count is the number of
\* its records that were decoded and routed to a store, motion samples and
\* location samples alike, deduplicated or not.
C15_CountsRouted ==
    /\ server = "pg" =>
        \A c \in Callers :
        \A items \in SeqsUpTo(PgSamples \cup PgLocation \cup {Barometer}, 2) :
            LET h == PgOnce(c, items)
            IN  Succeeded(h)
                => h.resp.processed_count
                    = Len(items) - Unsupported(PayloadOf(items), PgTableNames)
    /\ server = "fa" =>
        \A items \in SeqsUpTo(FaSamples \cup {Barometer}, 2) :
            LET h == FaOnce(items)
            IN  Succeeded(h)
                => h.resp.processed_count
                    = Len(items)
                      - Unsupported(PayloadOf(items), fa_sensor_data_list_to_store)

\* C16: a record of a name the server does not handle (or of no name) is
\* passed over: a batch with such a record between supported ones is
\* answered with success, and leaves the tables and the deques, and gives
\* the answer, processed_count included, of the batch without it.
C16_UnsupportedSkipped ==
    /\ server = "pg" =>
        \A c \in Callers, u \in {Barometer, Unnamed} :
        \A pre \in SeqsUpTo(PgSamples \cup PgLocation, 1) :
        \A post \in SeqsUpTo(PgSamples \cup PgLocation, 1) :
            LET h == PgOnce(c, pre \o <<u>> \o post)
            IN  Succeeded(h) /\ h = PgOnce(c, pre \o post)
    /\ server = "fa" =>
        \A u \in {Barometer, Unnamed}, pre \in SeqsUpTo(FaSamples, 1) :
        \A post \in SeqsUpTo(FaSamples, 1) :
            LET h == FaOnce(pre \o <<u>> \o post)
            IN  Succeeded(h) /\ h = FaOnce(pre \o post)
    /\ server = "sl" =>
        \A u \in {Barometer, Unnamed, Motion("gravity", <<3, 0>>, V1)} :
        \A pre \in SeqsUpTo(SlSamples, 1), post \in SeqsUpTo(SlSamples, 1) :
            LET h == SlOnce(pre \o <<u>> \o post)
            IN  Succeeded(h) /\ h = SlOnce(pre \o post)

\* C16 witness: a request with a barometer record and a supported sample was
\* answered with success, its sample counted and stored.
C16_Witness ==
    /\ server = "pg"
    /\ Succeeded([resp |-> resp]) /\ resp.processed_count = 1
    /\ effect = [routed |-> 1, inserted |-> 1, unsupported |-> 1]

\* C17 (as claimed): no request is at its durable insert while it holds the
\* lock of the deques.
C17_LockNotAcrossStore == ~(handler.pc = "store" /\ data_lock = "handler")

\* the statements of the handler inside its with block
HeldPcs == {"loop", "store", "test", "append_t", "append_x", "append_y", "append_z", "exit"}

\* the statements of update_visualization inside its with block
CopyPcs == {"time", "x", "y", "z", "release"}

C19_SnapshotConsistent ==
    /\ viewer.pc = "release"
        => /\ viewer.Time = time_queue /\ viewer.X = accel_x_queue
           /\ viewer.Y = accel_y_queue /\ viewer.Z = accel_z_queue
    /\ viewer.pc \in {"release", "idle"}
        => /\ Len(viewer.X) = Len(viewer.Time)
           /\ Len(viewer.Y) = Len(viewer.Time)
           /\ Len(viewer.Z) = Len(viewer.Time)
           /\ IsIncreasing(viewer.Time)
           /\ \A i \in 1..Len(viewer.Time) : \E k \in 1..Len(slTable) :
                slTable[k] = [timestamp |-> viewer.Time[i], x |-> viewer.X[i],
                              y |-> viewer.Y[i], z |-> viewer.Z[i]]

\* C19 witness: a snapshot of one sample is complete and a request has done
\* the first of the four appends of a second sample.
C19_Witness ==
    /\ viewer.pc = "idle" /\ Len(viewer.Time) = 1
    /\ handler.pc = "append_x"
    /\ Len(time_queue) = 2 /\ Len(accel_x_queue) = 1

\* C20: a sample the deques do not take, its timestamp not after the newest
\* entry, is answered with success, leaves the deques as they are and is in
\* the table afterwards, added as a row if its timestamp was new; and a later
\* sample after it in the same batch is still admitted.
C20_DropIsSilent ==
    server = "sl" =>
        \A r \in SlSamples :
            LET ts == FromTimestamp(r.time)
                h == SlOnce(<<r>>)
                row == [timestamp |-> ts, x |-> r.values.x, y |-> r.values.y,
                        z |-> r.values.z]
            IN  time_queue # <<>> /\ ~TsLess(Last(time_queue), ts)
                => /\ Succeeded(h)
                   /\ h.st.time_queue = time_queue
                   /\ h.st.accel_x_queue = accel_x_queue
                   /\ h.st.accel_y_queue = accel_y_queue
                   /\ h.st.accel_z_queue = accel_z_queue
                   /\ h.st.table = IF RowsAt(slTable, ts) = 0
                                   THEN Append(slTable, row) ELSE slTable
                   /\ \A r2 \in SlSamples :
                        TsLess(Last(time_queue), FromTimestamp(r2.time))
                        => LET h2 == SlOnce(<<r, r2>>)
                           IN  /\ Succeeded(h2)
                               /\ Last(h2.st.time_queue) = FromTimestamp(r2.time)

\* C20 witness: the deque holds one entry; the last request sent an earlier
\* sample, which was answered with success and is the second row of the table.
C20_Witness ==
    /\ server = "sl"
    /\ Succeeded([resp |-> resp])
    /\ effect = [routed |-> 1, inserted |-> 1, unsupported |-> 0]
    /\ Len(time_queue) = 1 /\ Len(slTable) = 2
    /\ TsLess(slTable[2].timestamp, time_queue[1])

\* records of the PostgreSQL server that reach a store call
PgStored == PgSamples \cup PgLocation

\* C21: a batch that failed at a store call after part of it was written, and
\* is then sent again and meets no failure, is answered with success and
\* leaves the tables, and the answer, exactly as the batch would have had it
\* succeeded the first time, with one row of each timestamp of the batch.
C21_RetrySafe ==
    /\ server = "pg" =>
         \A c \in Callers, r1 \in PgStored, r2 \in PgStored, k \in 1..2 :
            LET body == PayloadOf(<<r1, r2>>)
                h1 == PgHandle(pgTables, use_port, c, body, k)
                h2 == PgHandle(h1.tables, use_port, c, body, 0)
                h == PgHandle(pgTables, use_port, c, body, 0)
            IN  StorageFailed(h1)
                => /\ Succeeded(h2) /\ Succeeded(h)
                   /\ h2.tables = h.tables
                   /\ h2.resp = h.resp
                   /\ \A r \in {r1, r2} :
                        RowsAt(h2.tables[r.name], FromTimestamp(r.time)) = 1
    /\ server = "fa" =>
         \A r1 \in FaSamples, r2 \in FaSamples, k \in 1..2 :
            LET body == PayloadOf(<<r1, r2>>)
                h1 == FaHandle(faTables, body, k)
                h2 == FaHandle(h1.tables, body, 0)
                h == FaHandle(faTables, body, 0)
            IN  StorageFailed(h1)
                => /\ Succeeded(h2) /\ Succeeded(h)
                   /\ h2.tables = h.tables
                   /\ h2.resp = h.resp
                   /\ \A r \in {r1, r2} :
                        RowsAt(h2.tables[r.name], FromTimestamp(r.time)) = 1

\* C21 witness: a batch of a gravity and an accelerometer sample was sent
\* again after its first request had stored the gravity row only: the request
\* routed two samples and added the one missing row.
C21_Witness ==
    /\ server = "pg"
    /\ Succeeded([resp |-> resp])
    /\ effect = [routed |-> 2, inserted |-> 1, unsupported |-> 0]
    /\ Len(pgTables["gravity"]) = 1 /\ Len(pgTables["accelerometer"]) = 1
    /\ \A n \in PgTableNames \ {"gravity", "accelerometer"} : pgTables[n] = <<>>

\* the row of A1 in a SQLite table
A1Row == [timestamp |-> <<1, 0>>, x |-> 1, y |-> 2, z |-> 3]

\* C22 (as claimed): sent to a server that holds nothing, the batch of the one
\* accelerometer record A1 (time 1000000000 ns, values 1, 2, 3) from client
\* 1.2.3.4 is answered with processed_count 1, leaves one accelerometer row
\* of timestamp 1 s with client 1.2.3.4, and a live buffer holding exactly
\* that sample.
C22_EndToEnd ==
    /\ (server = "pg" /\ \A n \in PgTableNames : pgTables[n] = <<>>) =>
         LET h == PgOnce(FirstCaller, <<A1>>)
         IN  /\ Has(h.resp, "processed_count") /\ h.resp.processed_count = 1
             /\ h.tables["accelerometer"] =
                    <<[timestamp |-> <<1, 0>>, client_ip |-> <<"1.2.3.4">>,
                       x |-> 1, y |-> 2, z |-> 3]>>
             /\ time_queue = <<<<1, 0>>>>
    /\ (server = "sl" /\ slTable = <<>> /\ time_queue = <<>>) =>
         LET h == SlOnce(<<A1>>)
         IN  /\ Has(h.resp, "processed_count") /\ h.resp.processed_count = 1
             /\ h.st.table = <<A1Row>>
             /\ h.st.time_queue = <<<<1, 0>>>>

\* C22 (amended): sent to a server that holds nothing, the batch of A1 is
\* answered, by the PostgreSQL server, with success and processed_count 1 and
\* leaves one accelerometer row of timestamp 1 s with the client's client_ip
\* (1.2.3.4 without --use-port) and nothing else; by the two-file SQLite
\* server with processed_count 1 and the row without a client; by the
\* server with the live deques with success alone, the row without a client,
\* and the four deques holding exactly that sample.
C22_EndToEndPerServer ==
    /\ (server = "pg" /\ \A n \in PgTableNames : pgTables[n] = <<>>) =>
         \A c \in Callers :
            LET h == PgOnce(c, <<A1>>)
            IN  /\ h.resp = [http |-> 200, status |-> "success", processed_count |-> 1]
                /\ h.tables = [pgTables EXCEPT !["accelerometer"] =
                        <<[timestamp |-> <<1, 0>>,
                           client_ip |-> IF use_port THEN <<"1.2.3.4", c.port>>
                                         ELSE <<"1.2.3.4">>,
                           x |-> 1, y |-> 2, z |-> 3]>>]
    /\ (server = "fa" /\ \A n \in fa_sensor_data_list_to_store : faTables[n] = <<>>) =>
         LET h == FaOnce(<<A1>>)
         IN  /\ h.resp = [http |-> 200, status |-> "success", processed_count |-> 1]
             /\ h.tables = [faTables EXCEPT !["accelerometer"] = <<A1Row>>]
    /\ (server = "sl" /\ slTable = <<>> /\ time_queue = <<>>) =>
         LET h == SlOnce(<<A1>>)
         IN  /\ h.resp = [http |-> 200, status |-> "success"]
             /\ h.st.table = <<A1Row>>
             /\ h.st.time_queue = <<<<1, 0>>>>
             /\ h.st.accel_x_queue = <<1>>
             /\ h.st.accel_y_queue = <<2>>
             /\ h.st.accel_z_queue = <<3>>

\* C22 witness: the PostgreSQL server, run without --use-port, has answered
\* the batch of A1 and holds its row and no other.
C22_Witness ==
    /\ server = "pg" /\ ~use_port
    /\ resp = [http |-> 200, status |-> "success", processed_count |-> 1]
    /\ pgTables["accelerometer"] =
          <<[timestamp |-> <<1, 0>>, client_ip |-> <<"1.2.3.4">>,
             x |-> 1, y |-> 2, z |-> 3]>>
    /\ \A n \in PgTableNames \ {"accelerometer"} : pgTables[n] = <<>>

\* rows of `after` that `before` does not hold
NewRows(before, after) ==
    {after[k] : k \in 1..Len(after)} \ {before[k] : k \in 1..Len(before)}

\* C27: under --use-port the client_ip of a request is host:port, so two
\* callers of one host and different ports have different client_ips; without
\* the flag it is the host alone and they share it.  Every row a request adds
\* carries the client_ip of its caller, and a record whose timestamp is new
\* to its table is stored under it.
C27_ClientIdentity ==
    server = "pg" =>
        \A c1 \in Callers, r \in PgStored : \A c2 \in Callers \ {c1} :
            LET id1 == ClientIp(c1, use_port)
                id2 == ClientIp(c2, use_port)
                h == PgOnce(c1, <<r>>)
            IN  /\ c1.host = c2.host /\ c1.port # c2.port
                /\ use_port => id1 = <<c1.host, c1.port>> /\ id1 # id2
                /\ ~use_port => id1 = <<c1.host>> /\ id1 = id2
                /\ \A n \in PgTableNames :
                     \A row \in NewRows(pgTables[n], h.tables[n]) : row.client_ip = id1
                /\ RowsAt(pgTables[r.name], FromTimestamp(r.time)) = 0
                    => PgHasKey(h.tables, r, id1)

\* C27 witness: under --use-port the accelerometer table holds a row of
\* 1.2.3.4:50001 and the gravity table a row of 1.2.3.4:50002.
C27_Witness ==
    /\ server = "pg" /\ use_port
    /\ \E k \in 1..Len(pgTables["accelerometer"]) :
         pgTables["accelerometer"][k].client_ip = <<"1.2.3.4", 50001>>
    /\ \E k \in 1..Len(pgTables["gravity"]) :
         pgTables["gravity"][k].client_ip = <<"1.2.3.4", 50002>>

GridsMatch(d) == d.X.f = d.Y.f /\ d.X.f = d.Z.f

\* C23 (as claimed): when the frequencies of X, Y and Z are not the same
\* array, the H/V function ends in an error its caller sees, never in a value.
C23_MismatchIsError ==
    ~GridsMatch(Sxx_f_dict)
        => extract_h_over_v_dominant_frequency(Sxx_f_dict, power_threshold).kind = "raise"

\* the first bin whose power summed over the time segments is the largest
TopBin(Sxx) ==
    CHOOSE i \in 1..Len(Sxx) :
        /\ \A j \in 1..Len(Sxx) : SumAxis1(Sxx)[j] <= SumAxis1(Sxx)[i]
        /\ \A j \in 1..(i - 1) : SumAxis1(Sxx)[j] < SumAxis1(Sxx)[i]

LevelDb(Sxx) ==
    [i \in 1..Len(Sxx) |-> Log10Db(SumAxis1(Maximum(Sxx, epsilon))[i])]

AxisFails(a) == \A i \in 1..NumBins : LevelDb(Sxx_f_dict[a].Sxx)[i] < power_threshold

\* C25: when the largest level of one of the three axes is below the
\* threshold, the H/V function returns 0.0, whatever the other axes and the
\* ratio are.
C25_ThresholdGate ==
    (\E a \in Axes : AxisFails(a))
        => extract_h_over_v_dominant_frequency(Sxx_f_dict, power_threshold) = Return(0)

\* C25 witness: the functions have run; X and Y are above the threshold in
\* every bin and Z is silent, so that the ratio is high, and the H/V
\* frequency is 0.0.
C25_Witness ==
    /\ dominant_frequencies.X # 0 /\ dominant_frequencies.Y # 0
    /\ GridsMatch(Sxx_f_dict)
    /\ ~AxisFails("X") /\ ~AxisFails("Y") /\ AxisFails("Z")
    /\ \A i \in 1..NumBins :
         LevelDb(Sxx_f_dict.X.Sxx)[i] > power_threshold
    /\ hv_dominant_frequency = 0

\* the H/V ratio of each bin: the mean of the levels of X and Y less that of Z
Ratio(d) ==
    [i \in 1..NumBins |->
        (LevelDb(d.X.Sxx)[i] + LevelDb(d.Y.Sxx)[i]) \div 2 - LevelDb(d.Z.Sxx)[i]]

\* C26: when no axis fails the threshold and the frequencies match, the H/V
\* function returns the frequency of the first bin of the highest ratio among
\* the bins whose ratio is above the threshold (and 0.0 if there is none).
C26_Selection ==
    (GridsMatch(Sxx_f_dict) /\ \A a \in Axes : ~AxisFails(a))
        => LET hv == Ratio(Sxx_f_dict)
               valid == {i \in 1..NumBins : hv[i] > power_threshold}
               r == extract_h_over_v_dominant_frequency(Sxx_f_dict, power_threshold)
           IN  /\ r.kind = "return"
               /\ valid = {} => r.value = 0
               /\ valid # {} =>
                    \E i \in valid :
                        /\ \A j \in valid : hv[j] <= hv[i]
                        /\ \A j \in valid : j < i => hv[j] < hv[i]
                        /\ r.value = Sxx_f_dict.X.f[i]

\* C26 witness: the functions have run; the ratio of the first bin is not
\* above the threshold, that of the second is, and the frequency of the
\* second bin is reported.
C26_Witness ==
    /\ GridsMatch(Sxx_f_dict) /\ \A a \in Axes : ~AxisFails(a)
    /\ Ratio(Sxx_f_dict)[1] <= power_threshold
    /\ Ratio(Sxx_f_dict)[2] > power_threshold
    /\ hv_dominant_frequency = Sxx_f_dict.X.f[2]

\* the calls of add_or_update_tag made for the client
UpsertsOf(c) == {k \in 1..Len(upserts) : upserts[k][1] = c}

\* C28: after any calls of add_or_update_tag, get_tags has an entry for
\* exactly the clients of those calls, each with the tag of the latest call
\* for that client, from one row per client; and one more call gives its
\* client its tag and leaves the tags of all other clients as they are.
C28_LastWriteWins ==
    LET tags == get_tags(client_tags)
    IN  /\ DOMAIN tags = {upserts[k][1] : k \in 1..Len(upserts)}
        /\ \A c \in DOMAIN tags :
             /\ \E k \in UpsertsOf(c) :
                  /\ \A j \in UpsertsOf(c) : j <= k
                  /\ tags[c] = upserts[k][2]
             /\ Cardinality({k \in 1..Len(client_tags) : client_tags[k].client_ip = c}) = 1
        /\ Len(client_tags) = Cardinality(DOMAIN tags)
        /\ \A c \in TagClients, t \in Tags :
             LET after == get_tags(add_or_update_tag(client_tags, c, t))
             IN  /\ DOMAIN after = DOMAIN tags \cup {c}
                 /\ after[c] = t
                 /\ \A c2 \in DOMAIN tags \ {c} : after[c2] = tags[c2]

\* C28 witness: a client was tagged, another client was tagged, and the first
\* was tagged again with a different tag: two rows, the first with the new tag.
C28_Witness ==
    /\ Len(upserts) = 3 /\ Len(client_tags) = 2
    /\ upserts[3][1] = upserts[1][1] /\ upserts[3][2] # upserts[1][2]
    /\ upserts[2][1] # upserts[1][1]
    /\ get_tags(client_tags)[upserts[1][1]] = upserts[3][2]

\* the rows of the accelerometer table
Stored == {pgTables[sensor_data_to_store][k] : k \in 1..Len(pgTables[sensor_data_to_store])}

IsOrderedCopy(result, wanted) ==
    /\ {result[k] : k \in 1..Len(result)} =
          {[timestamp |-> q.timestamp, x |-> q.x, y |-> q.y, z |-> q.z] : q \in wanted}
    /\ Len(result) = Cardinality(wanted)
    /\ IsIncreasing([k \in 1..Len(result) |-> result[k].timestamp])

SentRows ==
    UNION {{SqliteDecodeOne(b.payload.items[k], {"accelerometer"}).row :
              k \in {j \in 1..Len(b.payload.items) :
                       SqliteDecodeOne(b.payload.items[j], {"accelerometer"}).kind = "motion"}} :
           b \in ThreadBodies}

\* the four deques, up to length n, hold at each position the fields of one
\* sample that was sent
AlignedTo(n) ==
    \A i \in 1..n :
        [timestamp |-> time_queue[i], x |-> accel_x_queue[i],
         y |-> accel_y_queue[i], z |-> accel_z_queue[i]] \in SentRows

QueuesAligned ==
    /\ Len(accel_x_queue) = Len(time_queue)
    /\ Len(accel_y_queue) = Len(time_queue)
    /\ Len(accel_z_queue) = Len(time_queue)
    /\ AlignedTo(Len(time_queue))

\* C31: the four deques have one length and each position holds the fields of
\* one sample, in every state in which no request is between the four
\* appends of a sample: whenever the lock is free or held by a snapshot, at
\* every other statement of a request, and after a request that failed on a
\* malformed record in the middle of its batch.  Between the four appends,
\* made with the lock held, the deques already appended to are ahead by the
\* fields of the sample under way and by nothing else.
C31_QueuesAligned ==
    server = "sl" =>
        LET n == Len(accel_z_queue)
            ahead(q, v) == Len(q) = n + 1 /\ q[n + 1] = v
            level(q) == Len(q) = n
        IN  /\ handler.pc \notin {"append_x", "append_y", "append_z"} => QueuesAligned
            /\ data_lock # "handler" => QueuesAligned
            /\ handler.pc \in {"append_x", "append_y", "append_z"}
                => /\ data_lock = "handler"
                   /\ AlignedTo(n)
                   /\ ahead(time_queue, handler.row.timestamp)
                   /\ IF handler.pc = "append_x" THEN level(accel_x_queue)
                      ELSE ahead(accel_x_queue, handler.row.x)
                   /\ IF handler.pc = "append_z" THEN ahead(accel_y_queue, handler.row.y)
                      ELSE level(accel_y_queue)

\* C31 witness: a request has just failed on the record without z that
\* follows a good record in its batch, and the four deques hold two samples
\* of different values.
C31_Witness ==
    /\ server = "sl" /\ handler = Idle /\ data_lock = "free"
    /\ resp = ErrorResponse("KeyError: z")
    /\ effect.routed = 1
    /\ time_queue = <<FromTimestamp(A1.time), FromTimestamp(A2.time)>>
    /\ accel_x_queue = <<V1.x, V2.x>>
    /\ accel_y_queue = <<V1.y, V2.y>>
    /\ accel_z_queue = <<V1.z, V2.z>>

\* the durable table has a row of the timestamp
InTable(ts) == \E k \in 1..Len(slTable) : slTable[k].timestamp = ts

\* C32: every timestamp in the deque is the timestamp of a row of the durable
\* table, and a request is past its store call, at the test or at the appends
\* of a sample, only with that sample's timestamp in the table: a sample
\* whose insert raised is never appended.
C32_BufferedIsStored ==
    server = "sl" =>
        /\ \A i \in 1..Len(time_queue) : InTable(time_queue[i])
        /\ handler.pc \in {"test", "append_t", "append_x", "append_y", "append_z"}
            => InTable(handler.row.timestamp)

\* C32 witness: an insert has raised and its request has been answered with
\* the error; the deque holds the first sample only and the table has no row
\* of the second.
C32_Witness ==
    /\ server = "sl" /\ handler = Idle
    /\ resp = ErrorResponse("storage failure")
    /\ time_queue = <<FromTimestamp(A1.time)>>
    /\ InTable(FromTimestamp(A1.time))
    /\ ~InTable(FromTimestamp(A2.time))

\* C33: under fair scheduling the lock is always released: a request that
\* holds it leaves its with block, by the end of the loop or by an exception,
\* and the snapshot that holds it ends; so every request whose body has
\* arrived is answered, and snapshots complete again and again.
C33_LockAlwaysReleased ==
    /\ (data_lock = "handler") ~> (data_lock # "handler")
    /\ (data_lock = "viewer") ~> (data_lock # "viewer" /\ viewer.pc = "idle")
    /\ \A c \in Callers :
         (ready[c] # None) ~> (handler.pc = "exit" /\ handler.caller = c)
    /\ (handler.pc = "exit") ~> (handler = Idle /\ data_lock # "handler")
    /\ []<>(viewer.pc = "release")

\* C33 witness: a request has raised inside its with block and has been
\* answered with the error, and the snapshot has taken the lock after it.
C33_Witness ==
    /\ server = "sl" /\ handler = Idle
    /\ resp = ErrorResponse("KeyError: z")
    /\ data_lock = "viewer" /\ viewer.pc = "time"

\* C34 (as claimed): two records of one client and one sensor whose time
\* values differ get different timestamps, and sent in one request to the
\* PostgreSQL server with no row of either timestamp they are stored as two
\* rows of that client.
C34_DistinctTimesDistinctRows ==
    server = "pg" =>
        \A c \in Callers, r1 \in PgSamples, r2 \in PgSamples :
            (r1.name = r2.name /\ r1.time # r2.time)
                => /\ FromTimestamp(r1.time) # FromTimestamp(r2.time)
                   /\ (/\ RowsAt(pgTables[r1.name], FromTimestamp(r1.time)) = 0
                       /\ RowsAt(pgTables[r2.name], FromTimestamp(r2.time)) = 0)
                        => Len(PgOnce(c, <<r1, r2>>).tables[r1.name])
                              = Len(pgTables[r1.name]) + 2

\* no bin has its H/V ratio above the threshold
NoBinAbove == \A i \in 1..NumBins : Ratio(Sxx_f_dict)[i] <= power_threshold

\* C35: when no axis fails the threshold and no bin has its H/V ratio above
\* it, the H/V function returns 0.0 to its caller and raises nothing, and
\* update_visualization has 0.0 as the H/V frequency once it has run.
C35_NoBinAboveIsZero ==
    ((\A a \in Axes : ~AxisFails(a)) /\ NoBinAbove)
        => /\ extract_h_over_v_dominant_frequency(Sxx_f_dict, power_threshold)
                = Return(0)
           /\ hv_dominant_frequency = 0

\* C35 witness: the functions have run on matching frequencies; every axis
\* has a bin at or above the threshold, so that the single-axis frequencies
\* are not 0.0, no bin has a ratio above the threshold, the selection of the
\* body is empty and raises, and the H/V frequency is 0.0.
C35_Witness ==
    /\ GridsMatch(Sxx_f_dict)
    /\ \A a \in Axes : ~AxisFails(a) /\ dominant_frequencies[a] # 0
    /\ NoBinAbove
    /\ HvBody(Sxx_f_dict, power_threshold).kind = "raise"
    /\ hv_dominant_frequency = 0

\* C36 (as claimed): in the file-backed server a request whose JSON body is
\* empty is answered 400 "No JSON data received" and writes nothing, and a
\* request with any other JSON body adds exactly one line, its body, to the
\* file of its client and device and leaves every earlier line as it was.
C36_EmptyIs400 ==
    server = "ss" =>
        \A c \in Callers, body \in SsBodies :
            body.json # "invalid" =>
                LET h == SsHandle(ssFiles, c, body, FALSE)
                    filename == <<c.host, IF Has(body, "device_id")
                                           THEN body.device_id ELSE "unknown">>
                IN  IF Falsy(body)
                    THEN /\ h.resp = HttpError(400, "No JSON data received")
                         /\ h.files = ssFiles
                    ELSE /\ h.files[filename] = Append(ssFiles[filename], body)
                         /\ \A f \in SsFileNames \ {filename} : h.files[f] = ssFiles[f]

\* C37 (as claimed): create_database_if_not_exists never raises: whatever
\* fails in it, the connection to the default database included, the error
\* is logged and startup() goes on to create the pool.
C37_NeverRaises ==
    server = "pg" =>
        /\ startup.pc # "db_raised"
        /\ startup.pc \in {"pool", "pool_raised", "done"} /\ startup.conn = "unbound"
            => startup.logged = <<"Error creating database">>

====
